---- MODULE Spec2Model ----
(***************************************************************************)
(* The KRWXStableCoin token ledger (contracts/contracts/KRWXStableCoin.sol) *)
(* as a state machine.  One action per external entry point of the         *)
(* contract; every entry point is a pure operator from the ledger before   *)
(* the call to an outcome (revert reason or "ok", the ledger after the     *)
(* call, the events emitted).  A revert restores the ledger of the call's  *)
(* start, as the EVM does.                                                 *)
(*                                                                         *)
(* The OpenZeppelin 4.x bases the contract inherits (ERC20, ERC20Burnable, *)
(* ERC20Pausable, AccessControl, ReentrancyGuard) are modelled by what     *)
(* they do: their checks, in their order, with their revert reasons (the   *)
(* reasons the contract's test-suite expects).                             *)
(*                                                                         *)
(* Amounts are uint256 in the code.  Within MaxCalls calls every amount of  *)
(* the model stays far below 2^256, so checked arithmetic never overflows  *)
(* here and the naturals stand for uint256 values.                         *)
(***************************************************************************)
EXTENDS Naturals, Sequences, FiniteSets

-----------------------------------------------------------------------------
(* Addresses *)

AddressZero == "0x0"
admin == "admin"
feeRecipient_ == "feeRcpt"
user1 == "user1"
this == "this"
\* a foreign token contract, whose transfer function may call back
token1 == "token1"

Addresses == {AddressZero, admin, feeRecipient_, user1, this, token1}

\* externally owned accounts that send transactions in the model
Callers == {admin, user1}

-----------------------------------------------------------------------------
(* Roles *)

DEFAULT_ADMIN_ROLE == "DEFAULT_ADMIN_ROLE"
MINTER_ROLE == "MINTER_ROLE"
PAUSER_ROLE == "PAUSER_ROLE"
BLACKLISTER_ROLE == "BLACKLISTER_ROLE"

Roles == {DEFAULT_ADMIN_ROLE, MINTER_ROLE, PAUSER_ROLE, BLACKLISTER_ROLE}

-----------------------------------------------------------------------------
(* Bounds and input sets *)

MaxCalls == 3
MaxBatch == 2
MaxEth == 1

MAX_FEE_RATE == 100
BPS_DENOMINATOR == 10000

InitialSupplies == {200}
Amounts == {0, 100, 200}
Rates == {0, 50, 100, 101}
MintTargets == {AddressZero, admin, user1}
TransferTargets == {AddressZero, admin, feeRecipient_, user1, this}
BlacklistTargets == {AddressZero, admin, feeRecipient_, user1}
FeeRecipientTargets == {AddressZero, feeRecipient_, user1}
GrantTargets == {admin, user1}
RoleTargets == {admin, user1}
\* the roles revoked and renounced: the admin role of all roles, and one of
\* the roles it administers
RevokedRoles == {DEFAULT_ADMIN_ROLE, MINTER_ROLE}
Tokens == {AddressZero, this, user1}
RecoverAmounts == {1, 100}
BatchLegs == {<<user1, 100>>, <<AddressZero, 100>>, <<user1, 0>>}

VARIABLES
    balances,         \* ERC20._balances
    totalSupply,      \* ERC20._totalSupply
    blacklisted,      \* _blacklisted
    paused,           \* Pausable._paused
    transferFeeRate,
    feeRecipient,
    roles,            \* AccessControl._roles: role -> set of members
    ethBalance,       \* address(this).balance
    last,             \* the last call and its outcome
    before,           \* the ledger the last call started from
    calls,            \* number of calls made so far
    wallets,          \* rows of the wallets table (WalletService's repository)
    wcall,            \* each request to WalletService.createWallet
    wcalls,           \* number of createWallet requests made so far
    payments,         \* rows of the payments table, by id
    cache,            \* the Redis entries payment:{id}
    preq,             \* each request to PaymentsService
    pcalls,           \* number of PaymentsService requests made so far
    issued,           \* ids given to created payments
    _status,          \* ReentrancyGuard._status
    frame             \* the emergencyRecover call waiting for a foreign token

ledgerVars == <<balances, totalSupply, blacklisted, paused, transferFeeRate,
                feeRecipient, roles, ethBalance>>
contractVars == <<balances, totalSupply, blacklisted, paused, transferFeeRate,
                  feeRecipient, roles, ethBalance, last, before, calls>>
walletVars == <<wallets, wcall, wcalls>>
paymentVars == <<payments, cache, preq, pcalls, issued>>
guardVars == <<_status, frame>>
vars == <<contractVars, walletVars, paymentVars, guardVars>>

Ledger ==
    [balances |-> balances, totalSupply |-> totalSupply,
     blacklisted |-> blacklisted, paused |-> paused,
     transferFeeRate |-> transferFeeRate, feeRecipient |-> feeRecipient,
     roles |-> roles, ethBalance |-> ethBalance]

-----------------------------------------------------------------------------
(* Outcomes *)

OK == "ok"

Success(L, ev) == [err |-> OK, st |-> L, ev |-> ev]
Revert(L, reason) == [err |-> reason, st |-> L, ev |-> <<>>]

hasRole(L, role, account) == account \in L.roles[role]

MissingRole == "AccessControl: account is missing role"

-----------------------------------------------------------------------------
(* ERC20 (OpenZeppelin 4.x) internals, with ERC20Pausable's hook *)

\* ERC20._transfer without ERC20Pausable's check
ERC20_transfer_notPausable(L, from, to, amount) ==
    IF from = AddressZero THEN Revert(L, "ERC20: transfer from the zero address")
    ELSE IF to = AddressZero THEN Revert(L, "ERC20: transfer to the zero address")
    ELSE IF L.balances[from] < amount
    THEN Revert(L, "ERC20: transfer amount exceeds balance")
    ELSE LET debited == [L.balances EXCEPT ![from] = @ - amount]
             credited == [debited EXCEPT ![to] = @ + amount]
         IN Success([L EXCEPT !.balances = credited],
                    << <<"Transfer", from, to, amount>> >>)

ERC20_transfer(L, from, to, amount) ==
    IF from = AddressZero THEN Revert(L, "ERC20: transfer from the zero address")
    ELSE IF to = AddressZero THEN Revert(L, "ERC20: transfer to the zero address")
    ELSE IF L.paused THEN Revert(L, "Pausable: paused")
    ELSE IF L.balances[from] < amount
    THEN Revert(L, "ERC20: transfer amount exceeds balance")
    ELSE LET debited == [L.balances EXCEPT ![from] = @ - amount]
             credited == [debited EXCEPT ![to] = @ + amount]
         IN Success([L EXCEPT !.balances = credited],
                    << <<"Transfer", from, to, amount>> >>)

ERC20_mint(L, account, amount) ==
    IF account = AddressZero THEN Revert(L, "ERC20: mint to the zero address")
    ELSE IF L.paused THEN Revert(L, "Pausable: paused")
    ELSE Success([L EXCEPT !.totalSupply = @ + amount,
                           !.balances[account] = @ + amount],
                 << <<"Transfer", AddressZero, account, amount>> >>)

\* _burn taking what the account has when it has less than amount
ERC20_burn_saturating(L, account, amount) ==
    IF account = AddressZero THEN Revert(L, "ERC20: burn from the zero address")
    ELSE IF L.paused THEN Revert(L, "Pausable: paused")
    ELSE LET burnt == IF L.balances[account] < amount
                      THEN L.balances[account] ELSE amount
         IN Success([L EXCEPT !.balances[account] = @ - burnt,
                              !.totalSupply = @ - burnt],
                    << <<"Transfer", account, AddressZero, burnt>> >>)

ERC20_burn(L, account, amount) ==
    IF account = AddressZero THEN Revert(L, "ERC20: burn from the zero address")
    ELSE IF L.paused THEN Revert(L, "Pausable: paused")
    ELSE IF L.balances[account] < amount
    THEN Revert(L, "ERC20: burn amount exceeds balance")
    ELSE Success([L EXCEPT !.balances[account] = @ - amount,
                           !.totalSupply = @ - amount],
                 << <<"Transfer", account, AddressZero, amount>> >>)

-----------------------------------------------------------------------------
(* KRWXStableCoin *)

\* the fee rounded up instead of down
transferFee_roundedUp(amount, rate) ==
    (amount * rate + BPS_DENOMINATOR - 1) \div BPS_DENOMINATOR

\* the fee taken per thousand instead of per ten thousand
transferFee_perThousand(amount, rate) == (amount * rate) \div 1000

transferFee(amount, rate) == (amount * rate) \div BPS_DENOMINATOR

\* _transfer refusing every transfer while paused before any other check
_transfer_pauseCheckedFirst(L, from, to, amount) ==
    IF L.paused THEN Revert(L, "Pausable: paused")
    ELSE IF L.blacklisted[from] THEN Revert(L, "Sender is blacklisted")
    ELSE IF L.blacklisted[to] THEN Revert(L, "Recipient is blacklisted")
    ELSE IF L.transferFeeRate > 0 /\ from # L.feeRecipient /\ to # L.feeRecipient
    THEN LET fee == transferFee(amount, L.transferFeeRate)
             transferAmount == amount - fee
             r1 == ERC20_transfer(L, from, to, transferAmount)
         IN IF r1.err # OK THEN Revert(L, r1.err)
            ELSE IF fee > 0
            THEN LET r2 == ERC20_transfer(r1.st, from, L.feeRecipient, fee)
                 IN IF r2.err # OK THEN Revert(L, r2.err)
                    ELSE Success(r2.st, r1.ev \o r2.ev)
            ELSE r1
    ELSE ERC20_transfer(L, from, to, amount)

\* _transfer without the check of the recipient against the blacklist
_transfer_recipientUnchecked(L, from, to, amount) ==
    IF L.blacklisted[from] THEN Revert(L, "Sender is blacklisted")
    ELSE IF L.transferFeeRate > 0 /\ from # L.feeRecipient /\ to # L.feeRecipient
    THEN LET fee == transferFee(amount, L.transferFeeRate)
             transferAmount == amount - fee
             r1 == ERC20_transfer(L, from, to, transferAmount)
         IN IF r1.err # OK THEN Revert(L, r1.err)
            ELSE IF fee > 0
            THEN LET r2 == ERC20_transfer(r1.st, from, L.feeRecipient, fee)
                 IN IF r2.err # OK THEN Revert(L, r2.err)
                    ELSE Success(r2.st, r1.ev \o r2.ev)
            ELSE r1
    ELSE ERC20_transfer(L, from, to, amount)

\* _transfer keeping the net sub-transfer when the fee sub-transfer fails
_transfer_feeLegDropped(L, from, to, amount) ==
    IF L.blacklisted[from] THEN Revert(L, "Sender is blacklisted")
    ELSE IF L.blacklisted[to] THEN Revert(L, "Recipient is blacklisted")
    ELSE IF L.transferFeeRate > 0 /\ from # L.feeRecipient /\ to # L.feeRecipient
    THEN LET fee == transferFee(amount, L.transferFeeRate)
             transferAmount == amount - fee
             r1 == ERC20_transfer(L, from, to, transferAmount)
         IN IF r1.err # OK THEN Revert(L, r1.err)
            ELSE IF fee > 0
            THEN LET r2 == ERC20_transfer(r1.st, from, L.feeRecipient, fee)
                 IN IF r2.err # OK THEN r1
                    ELSE Success(r2.st, r1.ev \o r2.ev)
            ELSE r1
    ELSE ERC20_transfer(L, from, to, amount)

\* _transfer splitting off the fee whoever the parties are
_transfer_noExemption(L, from, to, amount) ==
    IF L.blacklisted[from] THEN Revert(L, "Sender is blacklisted")
    ELSE IF L.blacklisted[to] THEN Revert(L, "Recipient is blacklisted")
    ELSE IF L.transferFeeRate > 0
    THEN LET fee == transferFee(amount, L.transferFeeRate)
             transferAmount == amount - fee
             r1 == ERC20_transfer(L, from, to, transferAmount)
         IN IF r1.err # OK THEN Revert(L, r1.err)
            ELSE IF fee > 0
            THEN LET r2 == ERC20_transfer(r1.st, from, L.feeRecipient, fee)
                 IN IF r2.err # OK THEN Revert(L, r2.err)
                    ELSE Success(r2.st, r1.ev \o r2.ev)
            ELSE r1
    ELSE ERC20_transfer(L, from, to, amount)

\* _transfer making the fee sub-transfer when the fee is 0 as well
_transfer_zeroFeeLeg(L, from, to, amount) ==
    IF L.blacklisted[from] THEN Revert(L, "Sender is blacklisted")
    ELSE IF L.blacklisted[to] THEN Revert(L, "Recipient is blacklisted")
    ELSE IF L.transferFeeRate > 0 /\ from # L.feeRecipient /\ to # L.feeRecipient
    THEN LET fee == transferFee(amount, L.transferFeeRate)
             transferAmount == amount - fee
             r1 == ERC20_transfer(L, from, to, transferAmount)
         IN IF r1.err # OK THEN Revert(L, r1.err)
            ELSE LET r2 == ERC20_transfer(r1.st, from, L.feeRecipient, fee)
                 IN IF r2.err # OK THEN Revert(L, r2.err)
                    ELSE Success(r2.st, r1.ev \o r2.ev)
    ELSE ERC20_transfer(L, from, to, amount)

_transfer(L, from, to, amount) ==
    IF L.blacklisted[from] THEN Revert(L, "Sender is blacklisted")
    ELSE IF L.blacklisted[to] THEN Revert(L, "Recipient is blacklisted")
    ELSE IF L.transferFeeRate > 0 /\ from # L.feeRecipient /\ to # L.feeRecipient
    THEN LET fee == transferFee(amount, L.transferFeeRate)
             transferAmount == amount - fee
             r1 == ERC20_transfer(L, from, to, transferAmount)
         IN IF r1.err # OK THEN Revert(L, r1.err)
            ELSE IF fee > 0
            THEN LET r2 == ERC20_transfer(r1.st, from, L.feeRecipient, fee)
                 IN IF r2.err # OK THEN Revert(L, r2.err)
                    ELSE Success(r2.st, r1.ev \o r2.ev)
            ELSE r1
    ELSE ERC20_transfer(L, from, to, amount)

transfer(L, sender, to, amount) == _transfer(L, sender, to, amount)

\* the storage of a contract that has not been constructed
Undeployed ==
    [balances |-> [a \in Addresses |-> 0], totalSupply |-> 0,
     blacklisted |-> [a \in Addresses |-> FALSE], paused |-> FALSE,
     transferFeeRate |-> 0, feeRecipient |-> AddressZero,
     roles |-> [r \in Roles |-> {}], ethBalance |-> 0]

\* the constructor accepting the zero account as fee recipient
constructor_feeRecipientUnchecked(initialSupply, admin0, feeRecipient0) ==
    IF admin0 = AddressZero
    THEN Revert(Undeployed, "Admin cannot be zero address")
    ELSE LET L1 == [Undeployed EXCEPT !.roles = [r \in Roles |-> {admin0}],
                                      !.feeRecipient = feeRecipient0]
         IN IF initialSupply > 0
            THEN LET r == ERC20_mint(L1, admin0, initialSupply)
                 IN Success(r.st, r.ev \o << <<"Mint", admin0, initialSupply>> >>)
            ELSE Success(L1, <<>>)

\* constructor(initialSupply, admin, feeRecipient_); a failed deployment
\* leaves no contract
constructor(initialSupply, admin0, feeRecipient0) ==
    IF admin0 = AddressZero
    THEN Revert(Undeployed, "Admin cannot be zero address")
    ELSE IF feeRecipient0 = AddressZero
    THEN Revert(Undeployed, "Fee recipient cannot be zero address")
    ELSE LET L1 == [Undeployed EXCEPT !.roles = [r \in Roles |-> {admin0}],
                                      !.feeRecipient = feeRecipient0]
         IN IF initialSupply > 0
            THEN LET r == ERC20_mint(L1, admin0, initialSupply)
                 IN Success(r.st, r.ev \o << <<"Mint", admin0, initialSupply>> >>)
            ELSE Success(L1, <<>>)

\* mint crediting the account without raising the total supply
mint_supplyNotRaised(L, sender, to, amount) ==
    IF ~hasRole(L, MINTER_ROLE, sender) THEN Revert(L, MissingRole)
    ELSE IF to = AddressZero THEN Revert(L, "Cannot mint to zero address")
    ELSE IF L.blacklisted[to] THEN Revert(L, "Cannot mint to blacklisted address")
    ELSE LET r == ERC20_mint(L, to, amount)
         IN IF r.err # OK THEN Revert(L, r.err)
            ELSE Success([r.st EXCEPT !.totalSupply = L.totalSupply],
                         r.ev \o << <<"Mint", to, amount>> >>)

\* mint requiring amount > 0
mint_zeroRejected(L, sender, to, amount) ==
    IF ~hasRole(L, MINTER_ROLE, sender) THEN Revert(L, MissingRole)
    ELSE IF to = AddressZero THEN Revert(L, "Cannot mint to zero address")
    ELSE IF L.blacklisted[to] THEN Revert(L, "Cannot mint to blacklisted address")
    ELSE IF ~(amount > 0) THEN Revert(L, "Amount must be greater than zero")
    ELSE LET r == ERC20_mint(L, to, amount)
         IN IF r.err # OK THEN Revert(L, r.err)
            ELSE Success(r.st, r.ev \o << <<"Mint", to, amount>> >>)

\* mint without the onlyRole(MINTER_ROLE) modifier
mint_anyCaller(L, sender, to, amount) ==
    IF to = AddressZero THEN Revert(L, "Cannot mint to zero address")
    ELSE IF L.blacklisted[to] THEN Revert(L, "Cannot mint to blacklisted address")
    ELSE LET r == ERC20_mint(L, to, amount)
         IN IF r.err # OK THEN Revert(L, r.err)
            ELSE Success(r.st, r.ev \o << <<"Mint", to, amount>> >>)

\* mint without the blacklist check on the recipient
mint_blacklistUnchecked(L, sender, to, amount) ==
    IF ~hasRole(L, MINTER_ROLE, sender) THEN Revert(L, MissingRole)
    ELSE IF to = AddressZero THEN Revert(L, "Cannot mint to zero address")
    ELSE LET r == ERC20_mint(L, to, amount)
         IN IF r.err # OK THEN Revert(L, r.err)
            ELSE Success(r.st, r.ev \o << <<"Mint", to, amount>> >>)


mint(L, sender, to, amount) ==
    IF ~hasRole(L, MINTER_ROLE, sender) THEN Revert(L, MissingRole)
    ELSE IF to = AddressZero THEN Revert(L, "Cannot mint to zero address")
    ELSE IF L.blacklisted[to] THEN Revert(L, "Cannot mint to blacklisted address")
    ELSE LET r == ERC20_mint(L, to, amount)
         IN IF r.err # OK THEN Revert(L, r.err)
            ELSE Success(r.st, r.ev \o << <<"Mint", to, amount>> >>)

\* burnFrom without the onlyRole(MINTER_ROLE) modifier
burnFrom_anyCaller(L, sender, from, amount) ==
    IF from = AddressZero THEN Revert(L, "Cannot burn from zero address")
    ELSE IF L.blacklisted[from]
    THEN Revert(L, "Cannot burn from blacklisted address")
    ELSE LET r == ERC20_burn(L, from, amount)
         IN IF r.err # OK THEN Revert(L, r.err)
            ELSE Success(r.st, r.ev \o << <<"Burn", from, amount>> >>)

burnFrom(L, sender, from, amount) ==
    IF ~hasRole(L, MINTER_ROLE, sender) THEN Revert(L, MissingRole)
    ELSE IF from = AddressZero THEN Revert(L, "Cannot burn from zero address")
    ELSE IF L.blacklisted[from]
    THEN Revert(L, "Cannot burn from blacklisted address")
    ELSE LET r == ERC20_burn(L, from, amount)
         IN IF r.err # OK THEN Revert(L, r.err)
            ELSE Success(r.st, r.ev \o << <<"Burn", from, amount>> >>)

burn(L, sender, amount) ==
    LET r == ERC20_burn(L, sender, amount)
    IN IF r.err # OK THEN Revert(L, r.err) ELSE r

\* pause without Pausable's whenNotPaused
pause_idempotent(L, sender) ==
    IF ~hasRole(L, PAUSER_ROLE, sender) THEN Revert(L, MissingRole)
    ELSE Success([L EXCEPT !.paused = TRUE], << <<"Paused", sender>> >>)

pause(L, sender) ==
    IF ~hasRole(L, PAUSER_ROLE, sender) THEN Revert(L, MissingRole)
    ELSE IF L.paused THEN Revert(L, "Pausable: paused")
    ELSE Success([L EXCEPT !.paused = TRUE], << <<"Paused", sender>> >>)

unpause(L, sender) ==
    IF ~hasRole(L, PAUSER_ROLE, sender) THEN Revert(L, MissingRole)
    ELSE IF ~L.paused THEN Revert(L, "Pausable: not paused")
    ELSE Success([L EXCEPT !.paused = FALSE], << <<"Unpaused", sender>> >>)

\* blacklist refused while the ledger is paused
blacklist_whenNotPaused(L, sender, account) ==
    IF ~hasRole(L, BLACKLISTER_ROLE, sender) THEN Revert(L, MissingRole)
    ELSE IF L.paused THEN Revert(L, "Pausable: paused")
    ELSE IF account = AddressZero THEN Revert(L, "Cannot blacklist zero address")
    ELSE IF L.blacklisted[account] THEN Revert(L, "Account already blacklisted")
    ELSE Success([L EXCEPT !.blacklisted[account] = TRUE],
                 << <<"Blacklisted", account>> >>)

\* blacklist refusing the account that receives the fees
blacklist_feeRecipientProtected(L, sender, account) ==
    IF ~hasRole(L, BLACKLISTER_ROLE, sender) THEN Revert(L, MissingRole)
    ELSE IF account = AddressZero THEN Revert(L, "Cannot blacklist zero address")
    ELSE IF L.blacklisted[account] THEN Revert(L, "Account already blacklisted")
    ELSE IF account = L.feeRecipient
    THEN Revert(L, "Cannot blacklist fee recipient")
    ELSE Success([L EXCEPT !.blacklisted[account] = TRUE],
                 << <<"Blacklisted", account>> >>)

blacklist(L, sender, account) ==
    IF ~hasRole(L, BLACKLISTER_ROLE, sender) THEN Revert(L, MissingRole)
    ELSE IF account = AddressZero THEN Revert(L, "Cannot blacklist zero address")
    ELSE IF L.blacklisted[account] THEN Revert(L, "Account already blacklisted")
    ELSE Success([L EXCEPT !.blacklisted[account] = TRUE],
                 << <<"Blacklisted", account>> >>)

\* unBlacklist clearing the whole blacklist
unBlacklist_all(L, sender, account) ==
    IF ~hasRole(L, BLACKLISTER_ROLE, sender) THEN Revert(L, MissingRole)
    ELSE IF ~L.blacklisted[account] THEN Revert(L, "Account not blacklisted")
    ELSE Success([L EXCEPT !.blacklisted = [a \in Addresses |-> FALSE]],
                 << <<"UnBlacklisted", account>> >>)

unBlacklist(L, sender, account) ==
    IF ~hasRole(L, BLACKLISTER_ROLE, sender) THEN Revert(L, MissingRole)
    ELSE IF ~L.blacklisted[account] THEN Revert(L, "Account not blacklisted")
    ELSE Success([L EXCEPT !.blacklisted[account] = FALSE],
                 << <<"UnBlacklisted", account>> >>)

\* setTransferFeeRate without the bound on the rate
setTransferFeeRate_unbounded(L, sender, newRate) ==
    IF ~hasRole(L, DEFAULT_ADMIN_ROLE, sender) THEN Revert(L, MissingRole)
    ELSE Success([L EXCEPT !.transferFeeRate = newRate],
                 << <<"FeeRateUpdated", L.transferFeeRate, newRate>> >>)

setTransferFeeRate(L, sender, newRate) ==
    IF ~hasRole(L, DEFAULT_ADMIN_ROLE, sender) THEN Revert(L, MissingRole)
    ELSE IF ~(newRate <= MAX_FEE_RATE) THEN Revert(L, "Fee rate too high")
    ELSE Success([L EXCEPT !.transferFeeRate = newRate],
                 << <<"FeeRateUpdated", L.transferFeeRate, newRate>> >>)

setFeeRecipient(L, sender, newRecipient) ==
    IF ~hasRole(L, DEFAULT_ADMIN_ROLE, sender) THEN Revert(L, MissingRole)
    ELSE IF newRecipient = AddressZero
    THEN Revert(L, "Fee recipient cannot be zero address")
    ELSE Success([L EXCEPT !.feeRecipient = newRecipient],
                 << <<"FeeRecipientUpdated", L.feeRecipient, newRecipient>> >>)

\* batchLoop keeping the legs applied before a failing leg
RECURSIVE batchLoop_partial(_, _, _, _, _, _, _)
batchLoop_partial(L0, L, ev, sender, recipients, amounts, i) ==
    IF i > Len(recipients) THEN Success(L, ev)
    ELSE IF recipients[i] = AddressZero
    THEN Revert(L, "Cannot transfer to zero address")
    ELSE IF ~(amounts[i] > 0) THEN Revert(L, "Amount must be greater than zero")
    ELSE LET r == _transfer(L, sender, recipients[i], amounts[i])
         IN IF r.err # OK THEN Revert(L, r.err)
            ELSE batchLoop_partial(L0, r.st, ev \o r.ev, sender, recipients,
                                   amounts, i + 1)

\* the loop of batchTransfer from leg i on (1-based), on the ledger L the
\* earlier legs left; a failing leg reverts the whole call to L0
RECURSIVE batchLoop(_, _, _, _, _, _, _)
batchLoop(L0, L, ev, sender, recipients, amounts, i) ==
    IF i > Len(recipients) THEN Success(L, ev)
    ELSE IF recipients[i] = AddressZero
    THEN Revert(L0, "Cannot transfer to zero address")
    ELSE IF ~(amounts[i] > 0) THEN Revert(L0, "Amount must be greater than zero")
    ELSE LET r == _transfer(L, sender, recipients[i], amounts[i])
         IN IF r.err # OK THEN Revert(L0, r.err)
            ELSE batchLoop(L0, r.st, ev \o r.ev, sender, recipients, amounts, i + 1)

RECURSIVE SumSeq(_, _)
SumSeq(amounts, i) ==
    IF i > Len(amounts) THEN 0 ELSE amounts[i] + SumSeq(amounts, i + 1)

\* batchTransfer moving every leg in full and charging one fee on the sum
batchTransfer_feeOnSum(L, sender, recipients, amounts) ==
    IF Len(recipients) # Len(amounts) THEN Revert(L, "Arrays length mismatch")
    ELSE IF ~(Len(recipients) > 0) THEN Revert(L, "Empty arrays")
    ELSE LET r == batchLoop(L, [L EXCEPT !.transferFeeRate = 0], <<>>, sender,
                            recipients, amounts, 1)
             moved == [r.st EXCEPT !.transferFeeRate = L.transferFeeRate]
             fee == transferFee(SumSeq(amounts, 1), L.transferFeeRate)
         IN IF r.err # OK THEN Revert(L, r.err)
            ELSE IF fee > 0 /\ sender # L.feeRecipient
            THEN LET r2 == ERC20_transfer(moved, sender, L.feeRecipient, fee)
                 IN IF r2.err # OK THEN Revert(L, r2.err)
                    ELSE Success(r2.st, r.ev \o r2.ev)
            ELSE Success(moved, r.ev)

\* batchTransfer checking for empty recipients before comparing the lengths
batchTransfer_emptinessFirst(L, sender, recipients, amounts) ==
    IF ~(Len(recipients) > 0) THEN Revert(L, "Empty arrays")
    ELSE IF Len(recipients) # Len(amounts)
    THEN Revert(L, "Arrays length mismatch")
    ELSE batchLoop(L, L, <<>>, sender, recipients, amounts, 1)

batchTransfer(L, sender, recipients, amounts) ==
    IF Len(recipients) # Len(amounts) THEN Revert(L, "Arrays length mismatch")
    ELSE IF ~(Len(recipients) > 0) THEN Revert(L, "Empty arrays")
    ELSE batchLoop(L, L, <<>>, sender, recipients, amounts, 1)

\* emergencyRecover refusing the ledger's own token
emergencyRecover_ownTokenRefused(L, sender, token, amount) ==
    IF ~hasRole(L, DEFAULT_ADMIN_ROLE, sender) THEN Revert(L, MissingRole)
    ELSE IF token = AddressZero
    THEN IF ~(L.ethBalance >= amount) THEN Revert(L, "Insufficient ETH balance")
         ELSE Success([L EXCEPT !.ethBalance = @ - amount], <<>>)
    ELSE IF token = this THEN Revert(L, "Cannot recover own token")
    ELSE Revert(L, "function call to a non-contract account")

\* token == address(0): ether is sent to the caller.  Otherwise
\* IERC20(token).transfer(msg.sender, amount) is an external call: to this
\* contract it is transfer() with msg.sender == address(this); to an address
\* without code the call reverts.
emergencyRecover(L, sender, token, amount) ==
    IF ~hasRole(L, DEFAULT_ADMIN_ROLE, sender) THEN Revert(L, MissingRole)
    ELSE IF token = AddressZero
    THEN IF ~(L.ethBalance >= amount) THEN Revert(L, "Insufficient ETH balance")
         ELSE Success([L EXCEPT !.ethBalance = @ - amount], <<>>)
    ELSE IF token = this
    THEN LET r == transfer(L, this, sender, amount)
         IN IF r.err # OK THEN Revert(L, r.err) ELSE r
    ELSE Revert(L, "function call to a non-contract account")

(* AccessControl: every role's admin role is DEFAULT_ADMIN_ROLE *)

\* grantRole open to the holders of the role being granted
grantRole_byRoleHolder(L, sender, role, account) ==
    IF ~hasRole(L, DEFAULT_ADMIN_ROLE, sender) /\ ~hasRole(L, role, sender)
    THEN Revert(L, MissingRole)
    ELSE IF hasRole(L, role, account) THEN Success(L, <<>>)
    ELSE Success([L EXCEPT !.roles[role] = @ \cup {account}],
                 << <<"RoleGranted", role, account, sender>> >>)

grantRole(L, sender, role, account) ==
    IF ~hasRole(L, DEFAULT_ADMIN_ROLE, sender) THEN Revert(L, MissingRole)
    ELSE IF hasRole(L, role, account) THEN Success(L, <<>>)
    ELSE Success([L EXCEPT !.roles[role] = @ \cup {account}],
                 << <<"RoleGranted", role, account, sender>> >>)

\* revokeRole without the onlyRole(getRoleAdmin(role)) modifier
revokeRole_anyCaller(L, sender, role, account) ==
    IF ~hasRole(L, role, account) THEN Success(L, <<>>)
    ELSE Success([L EXCEPT !.roles[role] = @ \ {account}],
                 << <<"RoleRevoked", role, account, sender>> >>)

revokeRole(L, sender, role, account) ==
    IF ~hasRole(L, DEFAULT_ADMIN_ROLE, sender) THEN Revert(L, MissingRole)
    ELSE IF ~hasRole(L, role, account) THEN Success(L, <<>>)
    ELSE Success([L EXCEPT !.roles[role] = @ \ {account}],
                 << <<"RoleRevoked", role, account, sender>> >>)

renounceRole(L, sender, role, account) ==
    IF account # sender
    THEN Revert(L, "AccessControl: can only renounce roles for self")
    ELSE IF ~hasRole(L, role, account) THEN Success(L, <<>>)
    ELSE Success([L EXCEPT !.roles[role] = @ \ {account}],
                 << <<"RoleRevoked", role, account, sender>> >>)

-----------------------------------------------------------------------------
(* WalletService (backend/src/wallet), on a wallets table whose address    *)
(* column is declared unique.  A request runs in two steps of the event    *)
(* loop, the repository's findOne and its save; other requests run between *)
(* the two.                                                                *)

MaxWalletCalls == 3

WalletAddresses == {"0xA", "0xB"}
WalletRequests == {"req1", "req2"}

\* INSERT into a table without the unique index on address
insertWallet_notUnique(rows, address) ==
    [err |-> OK,
     rows |-> rows \cup {[id |-> Cardinality(rows) + 1, address |-> address]}]

\* repository.save of a new wallet: an INSERT, which the unique index on
\* address rejects when a row holds the address
insertWallet(rows, address) ==
    IF \E w \in rows : w.address = address
    THEN [err |-> "QueryFailedError", rows |-> rows]
    ELSE [err |-> OK,
          rows |-> rows \cup {[id |-> Cardinality(rows) + 1, address |-> address]}]

\* repository.findOne({ where: { address } })
findOneByAddress(rows, address) == {w \in rows : w.address = address}

\* wcall holds the requests made so far, each with its last call
WalletInit ==
    /\ wallets = {}
    /\ wcall = [q \in {} |-> ""]
    /\ wcalls = 0

\* createWallet up to the end of its findOne: ConflictException when a
\* wallet was found, the save pending otherwise
CreateWalletFind(q, address) ==
    /\ wcalls < MaxWalletCalls
    /\ IF q \in DOMAIN wcall THEN wcall[q].pc = "done" ELSE TRUE
    /\ wcalls' = wcalls + 1
    /\ LET existingWallet == findOneByAddress(wallets, address)
           call == [pc |-> IF existingWallet # {} THEN "done" ELSE "save",
                    address |-> address,
                    existed |-> existingWallet # {},
                    result |-> IF existingWallet # {}
                               THEN "ConflictException" ELSE "",
                    rowsAtStart |-> wallets,
                    inserted |-> FALSE]
       IN wcall' = [x \in DOMAIN wcall \cup {q} |->
                      IF x = q THEN call ELSE wcall[x]]
    /\ UNCHANGED <<wallets, contractVars, paymentVars, guardVars>>

\* the save of createWallet
CreateWalletSave(q) ==
    /\ q \in DOMAIN wcall /\ wcall[q].pc = "save"
    /\ LET r == insertWallet(wallets, wcall[q].address)
       IN /\ wallets' = r.rows
          /\ wcall' = [wcall EXCEPT ![q].pc = "done", ![q].result = r.err,
                                    ![q].inserted = (r.err = OK)]
    /\ UNCHANGED <<wcalls, contractVars, paymentVars, guardVars>>

WalletNext ==
    \/ \E q \in WalletRequests, a \in WalletAddresses : CreateWalletFind(q, a)
    \/ \E q \in WalletRequests : CreateWalletSave(q)

-----------------------------------------------------------------------------
(* PaymentsService (backend/src/payments/payments.service.ts) on the        *)
(* payments table and the Redis cache (backend/src/libs/redis.service.ts). *)
(* Every await of a repository or Redis operation ends a step: requests    *)
(* interleave between steps.  A row is its status and transactionHash; it  *)
(* is cached as JSON and parsed back, which keeps both fields.  A cache    *)
(* entry is set with a TTL of 300 s and may expire at any time.            *)

MaxPaymentCalls == 4

PaymentIds == {"pay1"}
PaymentRequests == {"reqA", "reqB"}

PENDING == "pending"
COMPLETED == "completed"
FAILED == "failed"
CANCELLED == "cancelled"

NoRow == [status |-> "", transactionHash |-> ""]

CreateAmounts == {0, 100}
StatusArgs == {COMPLETED, CANCELLED}
\* UpdatePaymentDto: the fields given
UpdateDtos == {[status |-> COMPLETED], [transactionHash |-> "0xh"]}

\* the calls that change a stored payment
Mutating == {"updatePaymentStatus", "updatePayment", "deletePayment"}

\* payment.status !== COMPLETED && payment.status !== FAILED
InProgress(row) == row.status # COMPLETED /\ row.status # FAILED

\* Object.assign(payment, updatePaymentDto)
Assign(row, dto) ==
    [f \in DOMAIN row |-> IF f \in DOMAIN dto THEN dto[f] ELSE row[f]]

NoRequest ==
    [pc |-> "idle", op |-> "", id |-> "", status |-> "", dto |-> <<>>,
     payment |-> NoRow, result |-> "", quiet |-> FALSE, stored |-> NoRow]

PaymentInit ==
    /\ payments = [i \in PaymentIds |-> NoRow]
    /\ cache = [i \in PaymentIds |-> NoRow]
    /\ preq = [q \in {} |-> NoRequest]
    /\ pcalls = 0
    /\ issued = {}

\* preq holds the requests made so far, each with its last call
Resting(q) == IF q \in DOMAIN preq THEN preq[q].pc = "done" ELSE TRUE

At(q, pc) == q \in DOMAIN preq /\ preq[q].pc = pc

\* a request that starts ends the quiet of the requests in progress
Begin(q, rec) ==
    preq' = [x \in DOMAIN preq \cup {q} |->
               IF x = q THEN rec
               ELSE IF Resting(x) THEN preq[x]
               ELSE [preq[x] EXCEPT !.quiet = FALSE]]

\* the request q moves on; the result "payment" returns the payment held
Step(q, pc, payment, result) ==
    preq' = [preq EXCEPT ![q].pc = pc, ![q].payment = payment,
                         ![q].result = result]

\* where a request goes when its findPaymentById has returned payment
AfterFind(q, payment) ==
    CASE preq[q].op = "findPaymentById" -> Step(q, "done", payment, "payment")
      [] preq[q].op = "updatePaymentStatus"
           -> Step(q, "save", [payment EXCEPT !.status = preq[q].status], "")
      [] preq[q].op = "updatePayment"
           -> Step(q, "save", Assign(payment, preq[q].dto), "")
      [] preq[q].op = "deletePayment" -> Step(q, "remove", payment, "")

\* createPayment: the amount check, then the save of a new PENDING payment
CreatePayment(q, amount) ==
    /\ pcalls < MaxPaymentCalls
    /\ Resting(q)
    /\ pcalls' = pcalls + 1
    /\ IF amount <= 0
       THEN /\ Begin(q, [NoRequest EXCEPT !.pc = "done", !.op = "createPayment",
                                          !.result = "BadRequestException"])
            /\ UNCHANGED <<payments, issued>>
       ELSE \E i \in PaymentIds \ issued :
              /\ issued' = issued \cup {i}
              /\ payments' = [payments EXCEPT
                                ![i] = [status |-> PENDING, transactionHash |-> ""]]
              /\ Begin(q, [NoRequest EXCEPT !.pc = "done", !.op = "createPayment",
                                            !.id = i,
                                            !.payment = payments'[i],
                                            !.result = "payment"])
    /\ UNCHANGED <<cache, contractVars, walletVars,
                   guardVars>>

\* a call of findPaymentById, updatePaymentStatus, updatePayment or
\* deletePayment: each starts with findPaymentById(id)
StartRequest(q, op, id, status, dto) ==
    /\ pcalls < MaxPaymentCalls
    /\ Resting(q)
    /\ pcalls' = pcalls + 1
    /\ Begin(q, [NoRequest EXCEPT
                   !.pc = "getCache", !.op = op, !.id = id,
                   !.status = status, !.dto = dto,
                   !.stored = payments[id],
                   !.quiet = /\ \A x \in PaymentRequests : Resting(x)
                             /\ \E x \in DOMAIN preq :
                                  /\ preq[x].pc = "done"
                                  /\ preq[x].op \in Mutating
                                  /\ preq[x].id = id
                                  /\ preq[x].result # "NotFoundException"])
    /\ UNCHANGED <<payments, cache, issued, contractVars, walletVars,
                   guardVars>>

\* findPaymentById: getPaymentCache, returning the cached payment if any
GetPaymentCache(q) ==
    /\ At(q, "getCache")
    /\ IF cache[preq[q].id] # NoRow
       THEN AfterFind(q, cache[preq[q].id])
       ELSE Step(q, "findOne", NoRow, "")
    /\ UNCHANGED <<payments, cache, pcalls, issued, contractVars, walletVars,
                   guardVars>>

\* findPaymentById: findOne, NotFoundException, and the choice to cache
FindOne(q) ==
    /\ At(q, "findOne")
    /\ LET payment == payments[preq[q].id]
       IN IF payment = NoRow
          THEN Step(q, "done", NoRow, "NotFoundException")
          ELSE IF InProgress(payment)
          THEN Step(q, "setCache", payment, "")
          ELSE AfterFind(q, payment)
    /\ UNCHANGED <<payments, cache, pcalls, issued, contractVars, walletVars,
                   guardVars>>

\* findPaymentById: setPaymentCache(id, payment, 300)
SetPaymentCache(q) ==
    /\ At(q, "setCache")
    /\ cache' = [cache EXCEPT ![preq[q].id] = preq[q].payment]
    /\ AfterFind(q, preq[q].payment)
    /\ UNCHANGED <<payments, pcalls, issued, contractVars, walletVars,
                   guardVars>>

\* paymentRepository.save(payment) of updatePaymentStatus and updatePayment
SavePayment(q) ==
    /\ At(q, "save")
    /\ payments' = [payments EXCEPT ![preq[q].id] = preq[q].payment]
    /\ IF preq[q].op = "updatePaymentStatus"
       THEN Step(q, "deleteCache", preq[q].payment, "")
       ELSE Step(q, "done", preq[q].payment, "payment")
    /\ UNCHANGED <<cache, pcalls, issued, contractVars, walletVars,
                   guardVars>>

\* updatePaymentStatus: deletePaymentCache(id)
DeletePaymentCache(q) ==
    /\ At(q, "deleteCache")
    /\ cache' = [cache EXCEPT ![preq[q].id] = NoRow]
    /\ IF InProgress([status |-> preq[q].status])
       THEN Step(q, "setUpdated", preq[q].payment, "")
       ELSE Step(q, "done", preq[q].payment, "payment")
    /\ UNCHANGED <<payments, pcalls, issued, contractVars, walletVars,
                   guardVars>>

\* updatePaymentStatus: setPaymentCache(id, updatedPayment, 300)
SetUpdatedCache(q) ==
    /\ At(q, "setUpdated")
    /\ cache' = [cache EXCEPT ![preq[q].id] = preq[q].payment]
    /\ Step(q, "done", preq[q].payment, "payment")
    /\ UNCHANGED <<payments, pcalls, issued, contractVars, walletVars,
                   guardVars>>

\* deletePayment: paymentRepository.remove(payment)
RemovePayment(q) ==
    /\ At(q, "remove")
    /\ payments' = [payments EXCEPT ![preq[q].id] = NoRow]
    /\ Step(q, "done", preq[q].payment, "void")
    /\ UNCHANGED <<cache, pcalls, issued, contractVars, walletVars,
                   guardVars>>

\* the TTL of a cache entry runs out
ExpireCache(id) ==
    /\ cache[id] # NoRow
    /\ cache' = [cache EXCEPT ![id] = NoRow]
    /\ UNCHANGED <<payments, preq, pcalls, issued, contractVars, walletVars,
                   guardVars>>

PaymentNext ==
    \/ \E q \in PaymentRequests, a \in CreateAmounts : CreatePayment(q, a)
    \/ \E q \in PaymentRequests, i \in PaymentIds :
         \/ StartRequest(q, "findPaymentById", i, "", <<>>)
         \/ StartRequest(q, "deletePayment", i, "", <<>>)
         \/ \E st \in StatusArgs :
              StartRequest(q, "updatePaymentStatus", i, st, <<>>)
         \/ \E dto \in UpdateDtos : StartRequest(q, "updatePayment", i, "", dto)
    \/ \E q \in PaymentRequests : GetPaymentCache(q)
    \/ \E q \in PaymentRequests : FindOne(q)
    \/ \E q \in PaymentRequests : SetPaymentCache(q)
    \/ \E q \in PaymentRequests : SavePayment(q)
    \/ \E q \in PaymentRequests : DeletePaymentCache(q)
    \/ \E q \in PaymentRequests : SetUpdatedCache(q)
    \/ \E q \in PaymentRequests : RemovePayment(q)
    \/ \E i \in PaymentIds : ExpireCache(i)

-----------------------------------------------------------------------------
(* ReentrancyGuard: nonReentrant refuses a call made while _status is      *)
(* ENTERED, sets it for the time of the body and resets it afterwards.     *)

NOT_ENTERED == "NOT_ENTERED"
ENTERED == "ENTERED"

GuardInit == _status = NOT_ENTERED /\ frame = <<>>

\* batchTransfer without the nonReentrant modifier
batchTransfer_unguarded(L, st, sender, recipients, amounts) ==
    batchTransfer(L, sender, recipients, amounts)

\* batchTransfer as called while _status is st
nonReentrant_batchTransfer(L, st, sender, recipients, amounts) ==
    IF st = ENTERED THEN Revert(L, "ReentrancyGuard: reentrant call")
    ELSE batchTransfer(L, sender, recipients, amounts)

\* emergencyRecover as called while _status is st: onlyRole comes first
nonReentrant_emergencyRecover(L, st, sender, token, amount) ==
    IF ~hasRole(L, DEFAULT_ADMIN_ROLE, sender) THEN Revert(L, MissingRole)
    ELSE IF st = ENTERED THEN Revert(L, "ReentrancyGuard: reentrant call")
    ELSE emergencyRecover(L, sender, token, amount)

-----------------------------------------------------------------------------
(* State machine *)

NoCall ==
    [op |-> "constructor", sender |-> admin, account |-> AddressZero,
     amount |-> 0, role |-> "", recipients |-> <<>>, amounts |-> <<>>,
     result |-> OK, events |-> <<>>]

Call(op, sender, account, amount, role, recipients, amts, r) ==
    /\ calls' = calls + 1
    /\ before' = Ledger
    /\ balances' = r.st.balances
    /\ totalSupply' = r.st.totalSupply
    /\ blacklisted' = r.st.blacklisted
    /\ paused' = r.st.paused
    /\ transferFeeRate' = r.st.transferFeeRate
    /\ feeRecipient' = r.st.feeRecipient
    /\ roles' = r.st.roles
    /\ ethBalance' = r.st.ethBalance
    /\ last' = [op |-> op, sender |-> sender, account |-> account,
                amount |-> amount, role |-> role, recipients |-> recipients,
                amounts |-> amts, result |-> r.err, events |-> r.ev]
    /\ UNCHANGED <<walletVars, paymentVars, guardVars>>

Init ==
    \E initialSupply \in InitialSupplies :
        /\ balances = [a \in Addresses |->
                          IF a = admin THEN initialSupply ELSE 0]
        /\ totalSupply = initialSupply
        /\ blacklisted = [a \in Addresses |-> FALSE]
        /\ paused = FALSE
        /\ transferFeeRate = 0
        /\ feeRecipient = feeRecipient_
        /\ roles = [r \in Roles |-> {admin}]
        /\ ethBalance = 0
        /\ last = [NoCall EXCEPT !.amount = initialSupply]
        /\ before = [balances |-> [a \in Addresses |-> 0], totalSupply |-> 0,
                     blacklisted |-> [a \in Addresses |-> FALSE],
                     paused |-> FALSE, transferFeeRate |-> 0,
                     feeRecipient |-> AddressZero,
                     roles |-> [r \in Roles |-> {}], ethBalance |-> 0]
        /\ calls = 0
        /\ WalletInit
        /\ PaymentInit
        /\ GuardInit

Mint(sender, to, amount) ==
    /\ calls < MaxCalls
    /\ Call("mint", sender, to, amount, "", <<>>, <<>>,
       mint(Ledger, sender, to, amount))

BurnFrom(sender, from, amount) ==
    /\ calls < MaxCalls
    /\ Call("burnFrom", sender, from, amount, "", <<>>, <<>>,
       burnFrom(Ledger, sender, from, amount))

Transfer(sender, to, amount) ==
    /\ calls < MaxCalls
    /\ Call("transfer", sender, to, amount, "", <<>>, <<>>,
       transfer(Ledger, sender, to, amount))

Burn(sender, amount) ==
    /\ calls < MaxCalls
    /\ Call("burn", sender, sender, amount, "", <<>>, <<>>,
       burn(Ledger, sender, amount))

Pause(sender) ==
    /\ calls < MaxCalls
    /\ Call("pause", sender, AddressZero, 0, "", <<>>, <<>>, pause(Ledger, sender))

Unpause(sender) ==
    /\ calls < MaxCalls
    /\ Call("unpause", sender, AddressZero, 0, "", <<>>, <<>>,
       unpause(Ledger, sender))

Blacklist(sender, account) ==
    /\ calls < MaxCalls
    /\ Call("blacklist", sender, account, 0, "", <<>>, <<>>,
       blacklist(Ledger, sender, account))

UnBlacklist(sender, account) ==
    /\ calls < MaxCalls
    /\ Call("unBlacklist", sender, account, 0, "", <<>>, <<>>,
       unBlacklist(Ledger, sender, account))

SetTransferFeeRate(sender, newRate) ==
    /\ calls < MaxCalls
    /\ Call("setTransferFeeRate", sender, AddressZero, newRate, "", <<>>, <<>>,
       setTransferFeeRate(Ledger, sender, newRate))

SetFeeRecipient(sender, newRecipient) ==
    /\ calls < MaxCalls
    /\ Call("setFeeRecipient", sender, newRecipient, 0, "", <<>>, <<>>,
       setFeeRecipient(Ledger, sender, newRecipient))

BatchTransfer(sender, recipients, amounts) ==
    /\ calls < MaxCalls
    /\ Call("batchTransfer", sender, AddressZero, 0, "", recipients, amounts,
       batchTransfer(Ledger, sender, recipients, amounts))

EmergencyRecover(sender, token, amount) ==
    /\ calls < MaxCalls
    /\ Call("emergencyRecover", sender, token, amount, "", <<>>, <<>>,
       emergencyRecover(Ledger, sender, token, amount))

GrantRole(sender, role, account) ==
    /\ calls < MaxCalls
    /\ Call("grantRole", sender, account, 0, role, <<>>, <<>>,
       grantRole(Ledger, sender, role, account))

RevokeRole(sender, role, account) ==
    /\ calls < MaxCalls
    /\ Call("revokeRole", sender, account, 0, role, <<>>, <<>>,
       revokeRole(Ledger, sender, role, account))

RenounceRole(sender, role, account) ==
    /\ calls < MaxCalls
    /\ Call("renounceRole", sender, account, 0, role, <<>>, <<>>,
       renounceRole(Ledger, sender, role, account))

\* ether forced into the contract (it has no receive function)
ForceEther ==
    /\ calls < MaxCalls
    /\ calls' = calls + 1
    /\ before' = Ledger
    /\ ethBalance < MaxEth
    /\ ethBalance' = ethBalance + 1
    /\ last' = [NoCall EXCEPT !.op = "forceEther", !.sender = AddressZero,
                              !.amount = 1]
    /\ UNCHANGED <<balances, totalSupply, blacklisted, paused, transferFeeRate,
                   feeRecipient, roles>>
    /\ UNCHANGED <<walletVars, paymentVars, guardVars>>

SeqsUpTo(S, n) == UNION {[1..k -> S] : k \in 0..n}

\* batches of up to MaxBatch legs, and arrays of different lengths
BatchInputs ==
    {<<[i \in DOMAIN legs |-> legs[i][1]], [i \in DOMAIN legs |-> legs[i][2]]>> :
        legs \in SeqsUpTo(BatchLegs, MaxBatch)}
    \cup {<<[i \in 1..m |-> user1], [i \in 1..n |-> 100]>> :
            m \in 0..MaxBatch, n \in (0..MaxBatch)}

Next ==
    \/ \E s \in Callers, to \in MintTargets, a \in Amounts : Mint(s, to, a)
    \/ \E s \in Callers, from \in MintTargets, a \in Amounts : BurnFrom(s, from, a)
    \/ \E s \in Callers, a \in Amounts : Burn(s, a)
    \/ \E s \in Callers, to \in TransferTargets, a \in Amounts : Transfer(s, to, a)
    \/ \E s \in Callers, b \in BatchInputs : BatchTransfer(s, b[1], b[2])
    \/ \E s \in Callers : Pause(s)
    \/ \E s \in Callers : Unpause(s)
    \/ \E s \in Callers, a \in BlacklistTargets : Blacklist(s, a)
    \/ \E s \in Callers, a \in BlacklistTargets : UnBlacklist(s, a)
    \/ \E s \in Callers, r \in Rates : SetTransferFeeRate(s, r)
    \/ \E s \in Callers, a \in FeeRecipientTargets : SetFeeRecipient(s, a)
    \/ \E s \in Callers, t \in Tokens, a \in RecoverAmounts : EmergencyRecover(s, t, a)
    \/ \E s \in Callers, r \in Roles, a \in GrantTargets : GrantRole(s, r, a)
    \/ \E s \in Callers, r \in RevokedRoles, a \in RoleTargets : RevokeRole(s, r, a)
    \/ \E s \in Callers, r \in RevokedRoles, a \in RoleTargets : RenounceRole(s, r, a)
    \/ ForceEther

Spec == Init /\ [][Next]_vars

\* the requests to WalletService alone
WalletSpec == Init /\ [][WalletNext]_vars

\* the requests to PaymentsService alone
PaymentSpec == Init /\ [][PaymentNext]_vars

-----------------------------------------------------------------------------
(* emergencyRecover(token1, amount): the call IERC20(token1).transfer hands *)
(* control to the foreign contract token1, which may call the ledger back   *)
(* as msg.sender before it returns or reverts.                              *)

\* emergencyRecover(token1, amount) up to its external call
RecoverEnter(sender, amount) ==
    /\ frame = <<>>
    /\ calls < MaxCalls
    /\ IF ~hasRole(Ledger, DEFAULT_ADMIN_ROLE, sender) \/ _status = ENTERED
       THEN Call("emergencyRecover", sender, token1, amount, "", <<>>, <<>>,
                 nonReentrant_emergencyRecover(Ledger, _status, sender,
                                               token1, amount))
       ELSE /\ _status' = ENTERED
            /\ frame' = <<[sender |-> sender, amount |-> amount,
                           saved |-> Ledger]>>
            /\ calls' = calls + 1
            /\ UNCHANGED <<ledgerVars, last, before, walletVars, paymentVars>>

\* token1 calls batchTransfer from inside its transfer function
NestedBatchTransfer(recipients, amounts) ==
    /\ frame # <<>>
    /\ calls < MaxCalls
    /\ Call("batchTransfer", token1, AddressZero, 0, "", recipients, amounts,
            nonReentrant_batchTransfer(Ledger, _status, token1, recipients,
                                       amounts))

\* token1 calls emergencyRecover from inside its transfer function
NestedEmergencyRecover(token, amount) ==
    /\ frame # <<>>
    /\ calls < MaxCalls
    /\ Call("emergencyRecover", token1, token, amount, "", <<>>, <<>>,
            nonReentrant_emergencyRecover(Ledger, _status, token1, token,
                                          amount))

\* token1 calls transfer, which has no guard, from inside its transfer function
NestedTransfer(to, amount) ==
    /\ frame # <<>>
    /\ calls < MaxCalls
    /\ Call("transfer", token1, to, amount, "", <<>>, <<>>,
            transfer(Ledger, token1, to, amount))

\* token1 returns, and emergencyRecover ends with the guard reset; or token1
\* reverts, and everything done since emergencyRecover began is undone
RecoverReturn(reverted) ==
    /\ frame # <<>>
    /\ LET f == frame[1]
           L == IF reverted THEN f.saved ELSE Ledger
       IN /\ balances' = L.balances
          /\ totalSupply' = L.totalSupply
          /\ blacklisted' = L.blacklisted
          /\ paused' = L.paused
          /\ transferFeeRate' = L.transferFeeRate
          /\ feeRecipient' = L.feeRecipient
          /\ roles' = L.roles
          /\ ethBalance' = L.ethBalance
          /\ before' = f.saved
          /\ last' = [NoCall EXCEPT !.op = "emergencyRecover",
                                    !.sender = f.sender, !.account = token1,
                                    !.amount = f.amount,
                                    !.result = IF reverted THEN "reverted"
                                               ELSE OK]
    /\ _status' = NOT_ENTERED
    /\ frame' = <<>>
    /\ UNCHANGED <<calls, walletVars, paymentVars>>

\* calls made while no emergencyRecover is in progress
FundToken(amount) == frame = <<>> /\ Transfer(admin, token1, amount)

GrantToken(role) == frame = <<>> /\ GrantRole(admin, role, token1)

OuterBatchTransfer(sender, recipients, amounts) ==
    /\ frame = <<>>
    /\ calls < MaxCalls
    /\ Call("batchTransfer", sender, AddressZero, 0, "", recipients, amounts,
            nonReentrant_batchTransfer(Ledger, _status, sender, recipients,
                                       amounts))

ReentryNext ==
    \/ \E s \in Callers, a \in RecoverAmounts : RecoverEnter(s, a)
    \/ \E b \in BatchInputs : NestedBatchTransfer(b[1], b[2])
    \/ \E t \in Tokens, a \in RecoverAmounts : NestedEmergencyRecover(t, a)
    \/ \E to \in {admin, user1}, a \in Amounts : NestedTransfer(to, a)
    \/ \E reverted \in BOOLEAN : RecoverReturn(reverted)
    \/ \E a \in Amounts : FundToken(a)
    \/ \E r \in {DEFAULT_ADMIN_ROLE} : GrantToken(r)
    \/ \E s \in Callers, b \in BatchInputs : OuterBatchTransfer(s, b[1], b[2])

\* the ledger with a foreign token contract that calls back
ReentrySpec == Init /\ [][ReentryNext]_vars

-----------------------------------------------------------------------------
(* Deployment: the constructor applied to every choice of its arguments.   *)
(* The record of the call keeps admin in account, feeRecipient_ in         *)
(* recipients and initialSupply in amount.                                 *)

DeploySupplies == {0, 1, 100, 200, 1000}

DeployInit ==
    /\ balances = Undeployed.balances
    /\ totalSupply = Undeployed.totalSupply
    /\ blacklisted = Undeployed.blacklisted
    /\ paused = Undeployed.paused
    /\ transferFeeRate = Undeployed.transferFeeRate
    /\ feeRecipient = Undeployed.feeRecipient
    /\ roles = Undeployed.roles
    /\ ethBalance = Undeployed.ethBalance
    /\ last = [NoCall EXCEPT !.op = "none", !.sender = AddressZero]
    /\ before = Undeployed
    /\ calls = 0
    /\ WalletInit
    /\ PaymentInit
    /\ GuardInit

Deploy(initialSupply, admin0, feeRecipient0) ==
    /\ last.op = "none"
    /\ Call("constructor", AddressZero, admin0, initialSupply, "",
            <<feeRecipient0>>, <<>>,
            constructor(initialSupply, admin0, feeRecipient0))

DeployNext ==
    \E initialSupply \in DeploySupplies, admin0 \in Addresses,
       feeRecipient0 \in Addresses :
        Deploy(initialSupply, admin0, feeRecipient0)

DeploySpec == DeployInit /\ [][DeployNext]_vars

-----------------------------------------------------------------------------
(* Properties.                                                             *)
(* The specification names failures abstractly; the contract reverts with  *)
(* reason strings.  The correspondence used below:                         *)
(*   Unauthorized          MissingRole (AccessControl's onlyRole)          *)
(*   Paused                "Pausable: paused" (in a token movement)        *)
(*   AlreadyPaused         "Pausable: paused" (in pause())                 *)
(*   NotPaused             "Pausable: not paused"                          *)
(*   SenderBlacklisted     "Sender is blacklisted"                         *)
(*   RecipientBlacklisted  "Recipient is blacklisted"                      *)
(*   ZeroAddress           "ERC20: transfer to the zero address"           *)
(*   InsufficientBalance   "ERC20: transfer amount exceeds balance"        *)
(*   AlreadyBlacklisted    "Account already blacklisted"                   *)
(*   NotBlacklisted        "Account not blacklisted"                       *)
(* A state records the call made last (last), the ledger that call started *)
(* from (before) and the ledger it left (the variables), so a statement    *)
(* about every call is an invariant.                                       *)

Unchanged == Ledger = before

RECURSIVE SumOver(_, _)
SumOver(f, S) ==
    IF S = {} THEN 0
    ELSE LET a == CHOOSE x \in S : TRUE IN f[a] + SumOver(f, S \ {a})

\* C1: conservation: in every reachable state totalSupply equals the sum of
\* the balances of all accounts.
C1_Conservation == totalSupply = SumOver(balances, Addresses)

\* a fee-bearing transfer has spread the supply over three accounts after a
\* mint or burn changed it
C1_Witness ==
    /\ last.op = "transfer" /\ last.result = OK /\ Len(last.events) = 2
    /\ totalSupply \notin InitialSupplies
    /\ Cardinality({a \in Addresses : balances[a] > 0}) >= 3

FeeBearing(L, sender, to) ==
    /\ L.transferFeeRate > 0
    /\ sender # L.feeRecipient
    /\ to # L.feeRecipient

FloorFee(amount, r) ==
    CHOOSE f \in 0..amount : f * 10000 <= amount * r /\ amount * r < (f + 1) * 10000

FeeSplit(from, to, amount) ==
    LET fee == FloorFee(amount, before.transferFeeRate)
    IN /\ balances[from] = before.balances[from] - amount
       /\ balances[to] = before.balances[to] + amount - fee
       /\ balances[before.feeRecipient] = before.balances[before.feeRecipient] + fee

\* C2 as claimed: every successful fee-bearing transfer(from, to, amount)
\* debits from by amount, credits to with amount - floor(amount*r/10000) and
\* the fee recipient with floor(amount*r/10000).
C2_FeeCorrectness_Original ==
    (last.op = "transfer" /\ last.result = OK
     /\ FeeBearing(before, last.sender, last.account))
    => FeeSplit(last.sender, last.account, last.amount)

\* C2 amended: the same, for a transfer whose sender and recipient differ (a
\* transfer to oneself costs the sender the fee only).
C2_FeeCorrectness ==
    (last.op = "transfer" /\ last.result = OK
     /\ FeeBearing(before, last.sender, last.account)
     /\ last.sender # last.account)
    => FeeSplit(last.sender, last.account, last.amount)

\* a transfer between two distinct accounts, neither the fee recipient, has
\* paid a fee of at least 1
C2_Witness ==
    /\ last.op = "transfer" /\ last.result = OK
    /\ FeeBearing(before, last.sender, last.account)
    /\ last.sender # last.account
    /\ FloorFee(last.amount, before.transferFeeRate) > 0
    /\ balances[feeRecipient] > before.balances[feeRecipient]

\* the outcome of transfer(sender, recipients[i], amounts[i]) issued for
\* i, i+1, ... one call after another: the first failure, or the final ledger
RECURSIVE TransfersInTurn(_, _, _, _, _)
TransfersInTurn(L, sender, recipients, amounts, i) ==
    IF i > Len(recipients) THEN Success(L, <<>>)
    ELSE LET r == transfer(L, sender, recipients[i], amounts[i])
         IN IF r.err # OK THEN r
            ELSE TransfersInTurn(r.st, sender, recipients, amounts, i + 1)

\* C3: atomic batch: a batchTransfer one of whose legs fails a transfer
\* precondition on the ledger the earlier legs left fails as a whole, and a
\* failed batchTransfer leaves every balance and totalSupply as they were.
C3_AtomicBatch ==
    (last.op = "batchTransfer" /\ Len(last.recipients) = Len(last.amounts))
    => /\ TransfersInTurn(before, last.sender, last.recipients,
                          last.amounts, 1).err # OK
            => last.result # OK
       /\ last.result # OK
            => (balances = before.balances /\ totalSupply = before.totalSupply)

\* a batch failed on its second leg for lack of balance, its first leg being
\* a transfer that succeeds on its own
C3_Witness ==
    /\ last.op = "batchTransfer"
    /\ Len(last.recipients) = 2 /\ Len(last.amounts) = 2
    /\ last.result = "ERC20: transfer amount exceeds balance"
    /\ transfer(before, last.sender, last.recipients[1], last.amounts[1]).err = OK
    /\ last.recipients[1] # last.sender

\* C4 as claimed: while X is blacklisted a transfer from X fails with
\* SenderBlacklisted, a transfer to X fails with RecipientBlacklisted, and a
\* mint or burnFrom targeting X fails.
C4_BlacklistEnforcement_Original ==
    \A X \in Addresses : before.blacklisted[X] =>
        /\ (last.op = "transfer" /\ last.sender = X)
             => last.result = "Sender is blacklisted"
        /\ (last.op = "transfer" /\ last.account = X)
             => last.result = "Recipient is blacklisted"
        /\ (last.op \in {"mint", "burnFrom"} /\ last.account = X)
             => last.result # OK

\* C4 amended: while X is blacklisted a transfer from X fails with
\* SenderBlacklisted; a transfer to X fails with RecipientBlacklisted when
\* its sender is not blacklisted and with SenderBlacklisted when it is; a
\* mint or burnFrom targeting X fails; none of them changes the ledger.
C4_BlacklistEnforcement ==
    \A X \in Addresses : before.blacklisted[X] =>
        /\ (last.op = "transfer" /\ last.sender = X)
             => (last.result = "Sender is blacklisted" /\ Unchanged)
        /\ (last.op = "transfer" /\ last.account = X)
             => (last.result = (IF before.blacklisted[last.sender]
                                THEN "Sender is blacklisted"
                                ELSE "Recipient is blacklisted")
                 /\ Unchanged)
        /\ (last.op \in {"mint", "burnFrom"} /\ last.account = X)
             => (last.result # OK /\ Unchanged)

\* a transfer to a blacklisted account was refused, the sender not being
\* blacklisted and able to pay
C4_Witness ==
    /\ last.op = "transfer" /\ last.result = "Recipient is blacklisted"
    /\ before.blacklisted[last.account] /\ ~before.blacklisted[last.sender]
    /\ last.amount > 0 /\ before.balances[last.sender] >= last.amount

RequiredRole(op) ==
    CASE op \in {"mint", "burnFrom"} -> MINTER_ROLE
      [] op \in {"pause", "unpause"} -> PAUSER_ROLE
      [] op \in {"blacklist", "unBlacklist"} -> BLACKLISTER_ROLE
      [] op \in {"setTransferFeeRate", "setFeeRecipient", "emergencyRecover",
                 "grantRole", "revokeRole"}
           -> DEFAULT_ADMIN_ROLE

Privileged ==
    {"mint", "burnFrom", "pause", "unpause", "blacklist", "unBlacklist",
     "setTransferFeeRate", "setFeeRecipient", "emergencyRecover"}

Authorized == last.sender \in before.roles[RequiredRole(last.op)]

\* C5: authorization: a privileged operation called by an account that does
\* not hold the operation's role fails with Unauthorized, whatever its other
\* arguments, and leaves the whole ledger unchanged.
C5_Authorization ==
    (last.op \in Privileged /\ ~Authorized)
    => (last.result = MissingRole /\ Unchanged)

\* an account that had been granted PAUSER only was refused a mint that a
\* MINTER could have made
C5_Witness ==
    /\ last.op = "mint" /\ last.result = MissingRole
    /\ last.sender \in before.roles[PAUSER_ROLE]
    /\ last.account # AddressZero /\ ~before.blacklisted[last.account]
    /\ ~before.paused /\ last.amount > 0

\* the failure of transfer(from, to, amount) on ledger L when the
\* preconditions are checked in the order the specification gives
FirstFailure_ClaimedOrder(L, from, to, amount) ==
    IF L.paused THEN "Pausable: paused"
    ELSE IF L.blacklisted[from] THEN "Sender is blacklisted"
    ELSE IF L.blacklisted[to] THEN "Recipient is blacklisted"
    ELSE IF to = AddressZero THEN "ERC20: transfer to the zero address"
    ELSE IF L.balances[from] < amount THEN "ERC20: transfer amount exceeds balance"
    ELSE OK

\* what the sender's balance must cover: the amount, and in a fee-bearing
\* transfer to oneself only the amount less the fee
Needed(L, from, to, amount) ==
    IF from = to /\ FeeBearing(L, from, to)
    THEN amount - FloorFee(amount, L.transferFeeRate)
    ELSE amount

\* the same with the pause check fourth
FirstFailure_PauseFourth(L, from, to, amount) ==
    IF L.blacklisted[from] THEN "Sender is blacklisted"
    ELSE IF L.blacklisted[to] THEN "Recipient is blacklisted"
    ELSE IF to = AddressZero THEN "ERC20: transfer to the zero address"
    ELSE IF L.paused THEN "Pausable: paused"
    ELSE IF L.balances[from] < Needed(L, from, to, amount)
    THEN "ERC20: transfer amount exceeds balance"
    ELSE OK

\* C6 as claimed: a transfer reports the first violated precondition in the
\* order paused, sender blacklisted, recipient blacklisted, zero recipient,
\* insufficient balance.
C6_CheckOrder_Original ==
    last.op = "transfer"
    => last.result = FirstFailure_ClaimedOrder(before, last.sender, last.account,
                                               last.amount)

\* C6 amended: a transfer reports the first violated precondition in the
\* order sender blacklisted, recipient blacklisted, zero recipient, paused,
\* insufficient balance, and succeeds when none is violated; the balance is
\* insufficient when it is below amount, or, in a fee-bearing transfer to
\* oneself, below amount less the fee.
C6_CheckOrder ==
    last.op = "transfer"
    => last.result = FirstFailure_PauseFourth(before, last.sender, last.account,
                                              last.amount)

\* a transfer from a blacklisted sender while the ledger was paused
C6_Witness ==
    /\ last.op = "transfer"
    /\ before.paused /\ before.blacklisted[last.sender]
    /\ last.result = "Sender is blacklisted"

\* C7 as claimed: while the ledger is paused every transfer and every
\* batchTransfer fails with Paused and changes no balance.
C7_PausedBlocksTransfers_Original ==
    (last.op \in {"transfer", "batchTransfer"} /\ before.paused)
    => (last.result = "Pausable: paused" /\ balances = before.balances)

BatchChecksBeforePause(L, sender, recipients, amounts) ==
    /\ Len(recipients) = Len(amounts) /\ Len(recipients) > 0
    /\ recipients[1] # AddressZero /\ amounts[1] > 0
    /\ ~L.blacklisted[sender] /\ ~L.blacklisted[recipients[1]]

\* C7 amended: while the ledger is paused every transfer and every
\* batchTransfer fails and changes nothing; the failure is Paused unless a
\* check made before the pause check fails (blacklisted sender or recipient,
\* zero recipient, and for a batch the array and amount validation); right
\* after a successful unpause, and whenever the ledger is not paused, a
\* transfer that satisfies the other preconditions succeeds.
C7_PausedBlocksTransfers ==
    /\ (last.op \in {"transfer", "batchTransfer"} /\ before.paused)
         => (last.result # OK /\ Unchanged)
    /\ (last.op = "transfer" /\ before.paused
        /\ ~before.blacklisted[last.sender] /\ ~before.blacklisted[last.account]
        /\ last.account # AddressZero)
         => last.result = "Pausable: paused"
    /\ (last.op = "batchTransfer" /\ before.paused
        /\ BatchChecksBeforePause(before, last.sender, last.recipients,
                                  last.amounts))
         => last.result = "Pausable: paused"
    /\ (last.op = "transfer" /\ ~before.paused
        /\ FirstFailure_PauseFourth([before EXCEPT !.paused = FALSE], last.sender,
                                    last.account, last.amount) = OK)
         => last.result = OK
    /\ (last.op = "unpause" /\ last.result = OK)
         => \A s \in Callers, to \in TransferTargets, a \in Amounts :
              FirstFailure_PauseFourth([Ledger EXCEPT !.paused = FALSE],
                                       s, to, a) = OK
                => transfer(Ledger, s, to, a).err = OK

\* a transfer that met every other precondition was refused because the
\* ledger was paused
C7_Witness ==
    /\ last.op = "transfer" /\ before.paused
    /\ last.result = "Pausable: paused"
    /\ last.amount > 0 /\ before.balances[last.sender] >= last.amount
    /\ last.account # last.sender

\* the outcome of the call c on the ledger L
Replay(L, c) ==
    CASE c.op = "mint" -> mint(L, c.sender, c.account, c.amount)
      [] c.op = "burnFrom" -> burnFrom(L, c.sender, c.account, c.amount)
      [] c.op = "blacklist" -> blacklist(L, c.sender, c.account)
      [] c.op = "unBlacklist" -> unBlacklist(L, c.sender, c.account)
      [] c.op = "grantRole" -> grantRole(L, c.sender, c.role, c.account)
      [] c.op = "revokeRole" -> revokeRole(L, c.sender, c.role, c.account)
      [] c.op = "setTransferFeeRate" -> setTransferFeeRate(L, c.sender, c.amount)
      [] c.op = "setFeeRecipient" -> setFeeRecipient(L, c.sender, c.account)

NotPaused(L) == [L EXCEPT !.paused = FALSE]

Administrative ==
    {"blacklist", "unBlacklist", "grantRole", "revokeRole",
     "setTransferFeeRate", "setFeeRecipient"}

\* C8 as claimed: while the ledger is paused, mint, burnFrom, blacklist,
\* unBlacklist, role grants and revocations, setTransferFeeRate and
\* setFeeRecipient by a holder of the operation's role succeed exactly when
\* they would succeed in the same state with paused == false.
C8_PauseGatesNoAdminOp_Original ==
    (last.op \in Administrative \cup {"mint", "burnFrom"}
     /\ Authorized /\ before.paused)
    => (last.result = OK <=> Replay(NotPaused(before), last).err = OK)

\* C8 amended: while the ledger is paused, blacklist, unBlacklist, role
\* grants and revocations, setTransferFeeRate and setFeeRecipient by a holder
\* of the operation's role have the outcome they would have in the same
\* state with paused == false; mint and burnFrom are gated by the pause flag:
\* while paused they fail and change nothing, with Paused whenever they
\* would succeed in the same state with paused == false.
C8_PauseGatesNoAdminOp ==
    /\ (last.op \in Administrative /\ Authorized /\ before.paused)
         => /\ last.result = Replay(NotPaused(before), last).err
            /\ NotPaused(Ledger) = Replay(NotPaused(before), last).st
    /\ (last.op \in {"mint", "burnFrom"} /\ Authorized /\ before.paused)
         => /\ last.result # OK /\ Unchanged
            /\ Replay(NotPaused(before), last).err = OK
                 => last.result = "Pausable: paused"

\* a MINTER's mint that every other check admits was refused because the
\* ledger was paused
C8_Witness ==
    /\ last.op = "mint" /\ Authorized /\ before.paused
    /\ last.amount > 0
    /\ Replay(NotPaused(before), last).err = OK
    /\ last.result = "Pausable: paused"

\* C9: strict toggles: by a PAUSER, pause() while paused fails with
\* AlreadyPaused and leaves paused true, unpause() while not paused fails
\* with NotPaused and leaves paused false; by a BLACKLISTER, blacklist(X) of
\* a blacklisted X fails with AlreadyBlacklisted and unBlacklist(X) of a
\* non-blacklisted X fails with NotBlacklisted, the blacklist unchanged.  The
\* paused flag changes only to true in a successful pause() and to false in a
\* successful unpause(), both by a PAUSER.
C9_StrictToggles ==
    /\ (last.op = "pause" /\ Authorized /\ before.paused)
         => (last.result = "Pausable: paused" /\ paused)
    /\ (last.op = "unpause" /\ Authorized /\ ~before.paused)
         => (last.result = "Pausable: not paused" /\ ~paused)
    /\ (last.op = "blacklist" /\ Authorized /\ before.blacklisted[last.account])
         => (last.result = "Account already blacklisted"
             /\ blacklisted = before.blacklisted)
    /\ (last.op = "unBlacklist" /\ Authorized
        /\ ~before.blacklisted[last.account])
         => (last.result = "Account not blacklisted"
             /\ blacklisted = before.blacklisted)
    /\ (last.op # "constructor" /\ paused # before.paused)
         => /\ last.op = (IF paused THEN "pause" ELSE "unpause")
            /\ last.result = OK /\ Authorized

\* pause() by a PAUSER was refused because the ledger was paused already
C9_Witness ==
    /\ last.op = "pause" /\ Authorized /\ before.paused
    /\ last.result = "Pausable: paused" /\ paused

MintEvents == {i \in DOMAIN last.events : last.events[i][1] = "Mint"}

\* C10 as claimed: mint(to, 0) by a MINTER fails, changes neither
\* balances[to] nor totalSupply and emits no Mint event.
C10_MintZero_Original ==
    (last.op = "mint" /\ Authorized /\ last.amount = 0)
    => /\ last.result # OK
       /\ balances[last.account] = before.balances[last.account]
       /\ totalSupply = before.totalSupply
       /\ MintEvents = {}

\* C10 amended: mint(to, 0) by a MINTER changes neither balances[to] nor
\* totalSupply, but it is not refused for its amount: with to neither the
\* zero account nor blacklisted and the ledger not paused it succeeds and
\* emits Mint(to, 0).
C10_MintZero ==
    (last.op = "mint" /\ Authorized /\ last.amount = 0)
    => /\ balances = before.balances
       /\ totalSupply = before.totalSupply
       /\ (last.account # AddressZero /\ ~before.blacklisted[last.account]
           /\ ~before.paused)
            => /\ last.result = OK
               /\ \E i \in DOMAIN last.events :
                    last.events[i] = <<"Mint", last.account, 0>>

\* a MINTER minted 0 to an account and the call succeeded
C10_Witness ==
    /\ last.op = "mint" /\ Authorized /\ last.amount = 0
    /\ last.result = OK /\ MintEvents # {}

-----------------------------------------------------------------------------
(* Further correspondence of failure names:                                *)
(*   InsufficientBalance   "ERC20: burn amount exceeds balance" (burnFrom) *)
(*   FeeRateTooHigh        "Fee rate too high"                             *)
(*   ZeroAddress           "Fee recipient cannot be zero address"          *)
(*                         (setFeeRecipient)                               *)
(*   ArrayLengthMismatch   "Arrays length mismatch"                        *)
(*   EmptyBatch            "Empty arrays"                                  *)

NonNegative == \A a \in Addresses : balances[a] >= 0 /\ totalSupply >= 0

\* burnFrom meets the preconditions the specification lists before the
\* balance: the caller is a MINTER, from is neither the zero account nor
\* blacklisted
BurnFromAdmitted ==
    /\ last.op = "burnFrom" /\ Authorized
    /\ last.account # AddressZero /\ ~before.blacklisted[last.account]

BurnFromEffect ==
    (last.op = "burnFrom" /\ last.result = OK)
    => /\ balances = [before.balances EXCEPT ![last.account] = @ - last.amount]
       /\ totalSupply = before.totalSupply - last.amount
       /\ before.balances[last.account] >= last.amount

\* C11 as claimed: every balance is >= 0 in every reachable state; a
\* burnFrom(from, amount) with amount > balances[from] fails with
\* InsufficientBalance and leaves balances and totalSupply unchanged; a
\* successful burnFrom decreases balances[from] and totalSupply by amount.
C11_NonNegativity_Original ==
    /\ NonNegative
    /\ (BurnFromAdmitted /\ last.amount > before.balances[last.account])
         => /\ last.result = "ERC20: burn amount exceeds balance"
            /\ balances = before.balances /\ totalSupply = before.totalSupply
    /\ BurnFromEffect

\* C11 amended: every balance is >= 0 in every reachable state; a
\* burnFrom(from, amount) with amount > balances[from] fails, whoever calls
\* it, and leaves the ledger unchanged; the failure is InsufficientBalance
\* when the caller is a MINTER, from is neither the zero account nor
\* blacklisted and the ledger is not paused (while paused it is Paused); a
\* successful burnFrom decreases balances[from] and totalSupply by amount.
C11_NonNegativity ==
    /\ NonNegative
    /\ (last.op = "burnFrom" /\ last.amount > before.balances[last.account])
         => (last.result # OK /\ Unchanged)
    /\ (BurnFromAdmitted /\ last.amount > before.balances[last.account])
         => last.result = (IF before.paused THEN "Pausable: paused"
                           ELSE "ERC20: burn amount exceeds balance")
    /\ BurnFromEffect

\* a MINTER's burnFrom of more than a holder has was refused for the balance
C11_Witness ==
    /\ BurnFromAdmitted /\ ~before.paused
    /\ before.balances[last.account] > 0
    /\ last.amount > before.balances[last.account]
    /\ last.result = "ERC20: burn amount exceeds balance"

\* transfer(from, to, amount) passes every check made before the balance
TransferAdmitted ==
    /\ last.op = "transfer"
    /\ ~before.blacklisted[last.sender] /\ ~before.blacklisted[last.account]
    /\ last.account # AddressZero /\ ~before.paused

\* the sender's balance covers the net amount but not the amount
NetOnlyCovered ==
    /\ TransferAdmitted /\ FeeBearing(before, last.sender, last.account)
    /\ last.amount - FloorFee(last.amount, before.transferFeeRate)
         <= before.balances[last.sender]
    /\ before.balances[last.sender] < last.amount

\* after a fee-bearing transfer either nothing has changed or the fee
\* recipient holds the fee
FeeNeverWithheld ==
    (last.op = "transfer" /\ FeeBearing(before, last.sender, last.account))
    => \/ (last.result # OK /\ Unchanged)
       \/ /\ last.result = OK
          /\ balances[before.feeRecipient] =
                before.balances[before.feeRecipient]
                + FloorFee(last.amount, before.transferFeeRate)

\* C12 as claimed: a fee-bearing transfer(from, to, amount) whose sender
\* balance b satisfies amount - fee <= b < amount fails with
\* InsufficientBalance and leaves the balances of from, to and the fee
\* recipient unchanged; the net amount is never credited without the fee.
C12_AtomicFeeSplit_Original ==
    /\ NetOnlyCovered
         => /\ last.result = "ERC20: transfer amount exceeds balance"
            /\ balances = before.balances
    /\ FeeNeverWithheld

\* C12 amended: such a transfer with from # to fails with
\* InsufficientBalance and leaves the ledger unchanged; with from = to it
\* succeeds, the sender's balance lower by the fee and the fee recipient's
\* higher by the fee; after any fee-bearing transfer either nothing has
\* changed or the fee recipient has been credited the fee.
C12_AtomicFeeSplit ==
    /\ (NetOnlyCovered /\ last.sender # last.account)
         => /\ last.result = "ERC20: transfer amount exceeds balance"
            /\ Unchanged
    /\ (NetOnlyCovered /\ last.sender = last.account)
         => /\ last.result = OK
            /\ balances[last.sender] = before.balances[last.sender]
                 - FloorFee(last.amount, before.transferFeeRate)
    /\ FeeNeverWithheld

\* a fee-bearing transfer to another account was refused, the sender holding
\* the net amount but not the amount
C12_Witness ==
    /\ NetOnlyCovered /\ last.sender # last.account
    /\ FloorFee(last.amount, before.transferFeeRate) > 0
    /\ last.result = "ERC20: transfer amount exceeds balance"

FeeParamsUnchanged ==
    /\ transferFeeRate = before.transferFeeRate
    /\ feeRecipient = before.feeRecipient

\* C13: fee parameters stay valid: in every reachable state the fee rate is
\* between 0 and 100 basis points and the fee recipient is not the zero
\* account; setTransferFeeRate(n) with n > 100 fails (by an ADMIN with
\* FeeRateTooHigh) and setFeeRecipient(zero) fails (by an ADMIN with
\* ZeroAddress), each leaving rate and recipient unchanged, while
\* setTransferFeeRate(100) by an ADMIN succeeds and sets the rate to 100.
C13_FeeParamsValid ==
    /\ transferFeeRate \in 0..MAX_FEE_RATE
    /\ MAX_FEE_RATE = 100
    /\ feeRecipient # AddressZero
    /\ (last.op = "setTransferFeeRate" /\ last.amount > 100)
         => /\ last.result # OK /\ FeeParamsUnchanged
            /\ Authorized => last.result = "Fee rate too high"
    /\ (last.op = "setFeeRecipient" /\ last.account = AddressZero)
         => /\ last.result # OK /\ FeeParamsUnchanged
            /\ Authorized => last.result = "Fee recipient cannot be zero address"
    /\ (last.op = "setTransferFeeRate" /\ last.amount = 100 /\ Authorized)
         => (last.result = OK /\ transferFeeRate = 100)

\* an ADMIN who had set the rate to the maximum was refused a higher rate
C13_Witness ==
    /\ last.op = "setTransferFeeRate" /\ Authorized /\ last.amount > 100
    /\ last.result = "Fee rate too high"
    /\ before.transferFeeRate = 100 /\ transferFeeRate = 100

\* C14 as claimed: in every reachable state the account designated as
\* feeRecipient is not a member of the blacklist.
C14_FeeRecipientNotBlacklisted_Original == ~blacklisted[feeRecipient]

\* C14 amended: nothing keeps the fee recipient off the blacklist:
\* blacklist(X) by a BLACKLISTER succeeds for every X that is neither the
\* zero account nor blacklisted already, the fee recipient included, and
\* setFeeRecipient(Y) by an ADMIN succeeds for every Y but the zero account,
\* a blacklisted Y included; neither call changes the other's datum.
C14_FeeRecipientNotBlacklisted ==
    /\ (last.op = "blacklist" /\ Authorized /\ last.account # AddressZero
        /\ ~before.blacklisted[last.account])
         => /\ last.result = OK
            /\ blacklisted = [before.blacklisted EXCEPT ![last.account] = TRUE]
            /\ feeRecipient = before.feeRecipient
    /\ (last.op = "setFeeRecipient" /\ Authorized /\ last.account # AddressZero)
         => /\ last.result = OK
            /\ feeRecipient = last.account
            /\ blacklisted = before.blacklisted

\* the fee recipient is on the blacklist, put there by blacklist() or made
\* fee recipient by setFeeRecipient() while on it
C14_Witness ==
    /\ last.op \in {"blacklist", "setFeeRecipient"} /\ last.result = OK
    /\ last.account = feeRecipient
    /\ blacklisted[feeRecipient]

\* the balances b after amount has moved from from to to
MoveFull(b, from, to, amount) ==
    LET debited == [b EXCEPT ![from] = @ - amount]
    IN [debited EXCEPT ![to] = @ + amount]

\* the balances b after amount has left from, fee of it for rcpt and the
\* rest for to
MoveSplit(b, from, to, rcpt, amount, fee) ==
    MoveFull(MoveFull(b, from, to, amount - fee), from, rcpt, fee)

\* the balances after the legs i, i+1, ... of a batch, every leg moving its
\* amount in full when it is fee-exempt and split otherwise
RECURSIVE LegsApplied(_, _, _, _, _)
LegsApplied(b, sender, recipients, amounts, i) ==
    IF i > Len(recipients) THEN b
    ELSE LET moved ==
               IF FeeBearing(before, sender, recipients[i])
               THEN MoveSplit(b, sender, recipients[i], before.feeRecipient,
                              amounts[i],
                              FloorFee(amounts[i], before.transferFeeRate))
               ELSE MoveFull(b, sender, recipients[i], amounts[i])
         IN LegsApplied(moved, sender, recipients, amounts, i + 1)

\* C15: fee exemption: a successful transfer(from, to, amount) made while
\* the fee rate is 0, or in which from or to is the fee recipient, moves the
\* full amount from from to to in a single movement and credits no fee; in a
\* successful batchTransfer a leg whose recipient is the fee recipient
\* delivers its full amount.
C15_FeeExemption ==
    /\ (last.op = "transfer" /\ last.result = OK
        /\ ~FeeBearing(before, last.sender, last.account))
         => /\ balances = MoveFull(before.balances, last.sender, last.account,
                                   last.amount)
            /\ last.events = << <<"Transfer", last.sender, last.account,
                                  last.amount>> >>
            /\ totalSupply = before.totalSupply
    /\ (last.op = "batchTransfer" /\ last.result = OK)
         => /\ balances = LegsApplied(before.balances, last.sender,
                                      last.recipients, last.amounts, 1)
            /\ \A i \in DOMAIN last.recipients :
                 last.recipients[i] = before.feeRecipient
                   => \E j \in DOMAIN last.events :
                        last.events[j] = <<"Transfer", last.sender,
                                           last.recipients[i], last.amounts[i]>>

\* while a fee rate was set, an amount large enough to bear a fee was sent
\* to the fee recipient and arrived in full
C15_Witness ==
    /\ last.op = "transfer" /\ last.result = OK
    /\ before.transferFeeRate > 0
    /\ last.account = before.feeRecipient /\ last.account # last.sender
    /\ FloorFee(last.amount, before.transferFeeRate) > 0
    /\ balances[last.account] = before.balances[last.account] + last.amount

WellFormedBatch ==
    /\ last.op = "batchTransfer"
    /\ Len(last.recipients) = Len(last.amounts) /\ Len(last.recipients) > 0

InTurn == TransfersInTurn(before, last.sender, last.recipients, last.amounts, 1)

\* C16 as claimed: a batchTransfer of equal-length non-empty arrays succeeds
\* exactly when the calls transfer(caller, recipients[i], amounts[i]) made
\* one after another would all succeed, and then reaches the same balances,
\* the fee of each leg computed on that leg's amount.
C16_BatchIsComposition_Original ==
    WellFormedBatch
    => /\ last.result = OK <=> InTurn.err = OK
       /\ last.result = OK => balances = InTurn.st.balances

\* C16 amended: a batchTransfer of equal-length non-empty arrays succeeds
\* exactly when every amount is greater than 0 and the calls
\* transfer(caller, recipients[i], amounts[i]) made one after another would
\* all succeed (transfer accepts an amount of 0, batchTransfer refuses it);
\* it then leaves the ledger those calls would leave, the fee of each leg
\* being floor(amounts[i]*r/10000).
C16_BatchIsComposition ==
    WellFormedBatch
    => /\ last.result = OK
            <=> /\ \A i \in DOMAIN last.amounts : last.amounts[i] > 0
                /\ InTurn.err = OK
       /\ last.result = OK
            => /\ Ledger = InTurn.st
               /\ balances = LegsApplied(before.balances, last.sender,
                                         last.recipients, last.amounts, 1)

\* a batch of two fee-bearing legs succeeded, the fees of the legs adding up
\* to less than the fee of the sum
C16_Witness ==
    /\ WellFormedBatch /\ last.result = OK /\ Len(last.recipients) = 2
    /\ \A i \in 1..2 : FeeBearing(before, last.sender, last.recipients[i])
    /\ FloorFee(last.amounts[1], before.transferFeeRate)
         + FloorFee(last.amounts[2], before.transferFeeRate)
       < FloorFee(last.amounts[1] + last.amounts[2], before.transferFeeRate)

\* C17: batchTransfer input validation: a call whose recipients and amounts
\* differ in length fails with ArrayLengthMismatch and a call with two empty
\* arrays fails with EmptyBatch, whatever the caller and the state of the
\* ledger; both leave every balance (the whole ledger) unchanged; the lengths
\* are compared before emptiness is checked, so empty recipients with
\* non-empty amounts fail with ArrayLengthMismatch.
C17_BatchValidation ==
    /\ (last.op = "batchTransfer" /\ Len(last.recipients) # Len(last.amounts))
         => (last.result = "Arrays length mismatch" /\ Unchanged)
    /\ (last.op = "batchTransfer" /\ Len(last.recipients) = 0
        /\ Len(last.amounts) = 0)
         => (last.result = "Empty arrays" /\ Unchanged)
    /\ (last.op = "batchTransfer"
        /\ last.result \in {"Arrays length mismatch", "Empty arrays"})
         => (Len(last.recipients) # Len(last.amounts)
             \/ Len(last.recipients) = 0)

\* a batch with no recipient and some amounts was refused for the lengths
C17_Witness ==
    /\ last.op = "batchTransfer"
    /\ Len(last.recipients) = 0 /\ Len(last.amounts) > 0
    /\ last.result = "Arrays length mismatch"
    /\ before.balances[last.sender] > 0

\* C18: initial state: right after deployment with (initialSupply, admin,
\* feeRecipient), totalSupply = initialSupply = balances[admin], every other
\* balance is 0, admin holds ADMIN, MINTER, PAUSER and BLACKLISTER and no
\* other account holds any role, the ledger is not paused, the blacklist is
\* empty, the fee rate is 0 and the fee recipient is the given account;
\* deployment fails if admin or feeRecipient is the zero account.
C18_InitialState ==
    last.op = "constructor"
    => LET initialSupply == last.amount
           admin0 == last.account
           feeRecipient0 == last.recipients[1]
       IN IF admin0 = AddressZero \/ feeRecipient0 = AddressZero
          THEN last.result # OK /\ Ledger = Undeployed
          ELSE /\ last.result = OK
               /\ totalSupply = initialSupply
               /\ balances[admin0] = initialSupply
               /\ \A a \in Addresses \ {admin0} : balances[a] = 0
               /\ \A r \in Roles : roles[r] = {admin0}
               /\ Roles = {DEFAULT_ADMIN_ROLE, MINTER_ROLE, PAUSER_ROLE,
                           BLACKLISTER_ROLE}
               /\ ~paused
               /\ \A a \in Addresses : ~blacklisted[a]
               /\ transferFeeRate = 0
               /\ feeRecipient = feeRecipient0

\* a deployment with a positive supply, the admin and the fee recipient
\* being two accounts
C18_Witness ==
    /\ last.op = "constructor" /\ last.result = OK
    /\ last.amount > 0 /\ last.account # last.recipients[1]
    /\ balances[last.account] = last.amount
    /\ feeRecipient = last.recipients[1]

RoleAdministration == {"grantRole", "revokeRole"}

IsAdmin == last.sender \in before.roles[DEFAULT_ADMIN_ROLE]

RolesAdministered ==
    /\ (last.op \in RoleAdministration /\ ~IsAdmin)
         => (last.result = MissingRole /\ Unchanged)
    /\ (last.op = "grantRole" /\ IsAdmin)
         => /\ last.result = OK
            /\ roles = [before.roles EXCEPT ![last.role] = @ \cup {last.account}]
    /\ (last.op = "revokeRole" /\ IsAdmin)
         => /\ last.result = OK
            /\ roles = [before.roles EXCEPT ![last.role] = @ \ {last.account}]

\* C19 as claimed: grantRole and revokeRole by an account without ADMIN fail
\* and leave the role table unchanged; by an ADMIN they succeed for any role
\* and any account, the caller included; an account holding MINTER, PAUSER
\* or BLACKLISTER alone never changes who holds any role.
C19_RoleAdministration_Original ==
    /\ RolesAdministered
    /\ (last.op # "constructor" /\ roles # before.roles) => IsAdmin

\* C19 amended: the same for grantRole and revokeRole; an account without
\* ADMIN can change the role table in one way only: renounceRole(role, self)
\* removes the caller from a role it holds, and nothing else changes.
C19_RoleAdministration ==
    /\ RolesAdministered
    /\ (last.op # "constructor" /\ roles # before.roles)
         => \/ last.op \in RoleAdministration /\ IsAdmin
            \/ /\ last.op = "renounceRole" /\ last.account = last.sender
               /\ last.sender \in before.roles[last.role]
               /\ roles = [before.roles EXCEPT ![last.role] = @ \ {last.sender}]

\* an account holding MINTER but not ADMIN was refused a grantRole
C19_Witness ==
    /\ last.op = "grantRole" /\ ~IsAdmin
    /\ last.sender \in before.roles[MINTER_ROLE]
    /\ last.account \notin before.roles[last.role]
    /\ last.result = MissingRole /\ roles = before.roles

Recovering == last.op = "emergencyRecover" /\ IsAdmin

-----------------------------------------------------------------------------
(* WalletService *)

\* C21: wallet address uniqueness: createWallet for an address that is
\* stored already fails with ConflictException and creates nothing, and
\* after any sequence of createWallet requests, two requests for one address
\* whose find and save steps interleave included, at most one wallet is
\* stored per address.
C21_WalletUnique ==
    /\ \A q \in DOMAIN wcall :
         (wcall[q].pc = "done" /\ wcall[q].existed)
         => /\ wcall[q].result = "ConflictException"
            /\ ~wcall[q].inserted
            /\ wcall[q].rowsAtStart \subseteq wallets
    /\ \A a \in WalletAddresses :
         Cardinality({w \in wallets : w.address = a}) <= 1

\* two requests for one address both passed the find before either saved;
\* one wallet was stored and the other save was rejected
C21_Witness ==
    /\ DOMAIN wcall = {"req1", "req2"}
    /\ wcall["req1"].pc = "done" /\ wcall["req2"].pc = "done"
    /\ wcall["req1"].address = wcall["req2"].address
    /\ ~wcall["req1"].existed /\ ~wcall["req2"].existed
    /\ wcall["req1"].inserted /\ ~wcall["req2"].inserted
    /\ wcall["req2"].result = "QueryFailedError"
    /\ Cardinality({w \in wallets : w.address = wcall["req1"].address}) = 1

-----------------------------------------------------------------------------
(* PaymentsService *)

\* no request to PaymentsService is between two of its steps
Quiescent == \A q \in PaymentRequests : Resting(q)

\* C22: after any sequence of createPayment, findPaymentById,
\* updatePaymentStatus, updatePayment and deletePayment calls, the cache entry
\* payment:{id}, when present, belongs to a payment whose stored status is
\* neither COMPLETED nor FAILED.
C22_CacheOnlyInProgress ==
    Quiescent =>
      \A i \in PaymentIds :
        cache[i] # NoRow => payments[i] # NoRow /\ InProgress(payments[i])

\* what findPaymentById answers from the stored row alone
Answered(q, row) ==
    IF row = NoRow
    THEN preq[q].result = "NotFoundException"
    ELSE preq[q].result = "payment" /\ preq[q].payment = row

\* C30: once updatePaymentStatus, updatePayment or deletePayment of an id has
\* completed, a later findPaymentById of that id, started when no other request
\* is in progress and finished before another starts, returns the stored row
\* (NotFoundException when it is removed), never an older cached copy, whatever
\* the interleaving of the requests before it.
C30_CacheCoherence ==
    \A q \in DOMAIN preq :
      (preq[q].op = "findPaymentById" /\ preq[q].pc = "done" /\ preq[q].quiet)
        => Answered(q, preq[q].stored)


-----------------------------------------------------------------------------
(* Blacklisted accounts *)

\* the last call named X as the sender or a recipient of a transfer, or as
\* the account minted to or burned from
Targets(X) ==
    \/ last.op = "transfer" /\ X \in {last.sender, last.account}
    \/ /\ last.op = "batchTransfer"
       /\ \/ X = last.sender /\ Len(last.recipients) > 0
          \/ \E i \in DOMAIN last.recipients : last.recipients[i] = X
    \/ last.op \in {"mint", "burnFrom"} /\ X = last.account

-----------------------------------------------------------------------------
(* Zero fees *)

\* a fee-bearing transfer whose fee rounds down to 0
ZeroFee ==
    /\ last.op = "transfer" /\ last.result = OK
    /\ FeeBearing(before, last.sender, last.account)
    /\ FloorFee(last.amount, before.transferFeeRate) = 0

\* the Transfer events of the last call that credit the fee recipient with 0
ZeroToFeeRecipient ==
    {j \in DOMAIN last.events :
       /\ last.events[j][1] = "Transfer"
       /\ last.events[j][3] = before.feeRecipient
       /\ last.events[j][4] = 0}

\* C24: zero fees are skipped: a successful fee-bearing transfer whose fee
\* floor(amount*r/10000) is 0 credits the full amount to the recipient, leaves
\* the fee recipient's balance unchanged and emits exactly one Transfer event;
\* no transfer or batchTransfer emits a Transfer event of value 0 to the fee
\* recipient as a fee leg (the only such event is the transfer of amount 0
\* addressed to the fee recipient itself).
C24_ZeroFeeSkipped ==
    /\ ZeroFee
         => /\ balances = MoveFull(before.balances, last.sender, last.account,
                                   last.amount)
            /\ balances[before.feeRecipient] = before.balances[before.feeRecipient]
            /\ last.events = << <<"Transfer", last.sender, last.account,
                                  last.amount>> >>
    /\ (last.op \in {"transfer", "batchTransfer", "emergencyRecover"}
        /\ last.result = OK /\ ZeroToFeeRecipient # {})
         => /\ last.op = "transfer"
            /\ last.account = before.feeRecipient /\ last.amount = 0

\* a positive amount too small to bear a fee at the rate set was transferred
\* between two accounts, neither the fee recipient
C24_Witness ==
    /\ ZeroFee
    /\ last.amount > 0 /\ last.sender # last.account
    /\ balances[last.account] = before.balances[last.account] + last.amount


-----------------------------------------------------------------------------
(* Frame of blacklisting *)

\* C25: a successful blacklist(X) or unBlacklist(X) changes only the
\* blacklist membership of X: every balance, totalSupply, the paused flag,
\* the fee rate, the fee recipient, the roles and the membership of every
\* other account are as before.
C25_BlacklistFrame ==
    /\ (last.op = "blacklist" /\ last.result = OK)
         => Ledger = [before EXCEPT !.blacklisted[last.account] = TRUE]
    /\ (last.op = "unBlacklist" /\ last.result = OK)
         => Ledger = [before EXCEPT !.blacklisted[last.account] = FALSE]

\* an account holding tokens was taken off the blacklist while another
\* account stayed on it
C25_Witness ==
    /\ last.op = "unBlacklist" /\ last.result = OK
    /\ balances[last.account] > 0
    /\ \E a \in Addresses \ {last.account} : blacklisted[a]


-----------------------------------------------------------------------------
(* Control of the supply *)

\* the last call was a successful mint or burnFrom by a holder of MINTER
ByMinter ==
    /\ last.op \in {"mint", "burnFrom"} /\ last.result = OK
    /\ last.sender \in before.roles[MINTER_ROLE]

-----------------------------------------------------------------------------
(* Bound of the fee *)

\* what the last call credited to the fee recipient
FeeCredited ==
    balances[before.feeRecipient] - before.balances[before.feeRecipient]

\* C28: fee bound: the fee rate never exceeds 100 basis points, and in every
\* successful fee-bearing transfer of amount a the fee credited to the fee
\* recipient is floor(a*r/10000), at most floor(a/100) and at most a, and the
\* recipient's leg carries at least a - floor(a/100); a fee-exempt transfer
\* credits no fee.
C28_FeeBound ==
    /\ transferFeeRate <= MAX_FEE_RATE
    /\ (last.op = "transfer" /\ last.result = OK)
         => IF FeeBearing(before, last.sender, last.account)
            THEN /\ FeeCredited = transferFee(last.amount, before.transferFeeRate)
                 /\ FeeCredited <= last.amount \div 100
                 /\ FeeCredited <= last.amount
                 /\ last.events[1] = <<"Transfer", last.sender, last.account,
                                       last.amount - FeeCredited>>
                 /\ last.events[1][4] >= last.amount - (last.amount \div 100)
            ELSE Len(last.events) = 1 /\ last.events[1][4] = last.amount

\* at the highest rate a transfer has paid exactly the hundredth of its
\* amount
C28_Witness ==
    /\ last.op = "transfer" /\ last.result = OK
    /\ FeeBearing(before, last.sender, last.account)
    /\ before.transferFeeRate = MAX_FEE_RATE
    /\ FeeCredited = last.amount \div 100 /\ FeeCredited > 0


-----------------------------------------------------------------------------
(* Holders of ADMIN *)

\* the operations reserved to ADMIN
AdminOnly ==
    {"grantRole", "revokeRole", "setTransferFeeRate", "setFeeRecipient",
     "emergencyRecover"}

\* C29 as claimed: in every state reachable by grantRole, revokeRole and
\* renounceRole calls at least one account holds ADMIN.
C29_AdminRemains_Original == roles[DEFAULT_ADMIN_ROLE] # {}

\* C29 amended: ADMIN loses its last holder only when that holder revokes or
\* renounces its own ADMIN role; from then on no account holds ADMIN and every
\* grantRole, revokeRole, setTransferFeeRate, setFeeRecipient and
\* emergencyRecover fails with Unauthorized and changes nothing.
C29_AdminRemains ==
    /\ (last.op # "constructor" /\ before.roles[DEFAULT_ADMIN_ROLE] # {}
        /\ roles[DEFAULT_ADMIN_ROLE] = {})
         => /\ last.op \in {"revokeRole", "renounceRole"} /\ last.result = OK
            /\ last.role = DEFAULT_ADMIN_ROLE
            /\ last.account = last.sender
            /\ before.roles[DEFAULT_ADMIN_ROLE] = {last.sender}
    /\ (last.op # "constructor" /\ before.roles[DEFAULT_ADMIN_ROLE] = {})
         => /\ roles[DEFAULT_ADMIN_ROLE] = {}
            /\ last.op \in AdminOnly => (last.result = MissingRole /\ Unchanged)

\* after the only ADMIN gave its role up, a grantRole was refused
C29_Witness ==
    /\ before.roles[DEFAULT_ADMIN_ROLE] = {}
    /\ last.op = "grantRole" /\ last.result = MissingRole
    /\ roles[DEFAULT_ADMIN_ROLE] = {}


-----------------------------------------------------------------------------
(* Re-entrancy *)

\* the last call was made by token1 from inside an emergencyRecover
Nested == last.sender = token1 /\ frame # <<>>

\* C26: the guard is held exactly while an emergencyRecover waits for the
\* foreign token; a batchTransfer or emergencyRecover that the token nests in
\* it fails (with the re-entrancy error, or with Unauthorized when the token
\* holds no ADMIN role for emergencyRecover) and changes no state, and once
\* the outer call has ended a batchTransfer is admitted again.
C26_ReentrancyGuard ==
    /\ (_status = ENTERED) <=> (frame # <<>>)
    /\ (Nested /\ last.op = "batchTransfer")
         => /\ last.result = "ReentrancyGuard: reentrant call"
            /\ Unchanged /\ last.events = <<>>
    /\ (Nested /\ last.op = "emergencyRecover")
         => /\ last.result =
                 IF token1 \in before.roles[DEFAULT_ADMIN_ROLE]
                 THEN "ReentrancyGuard: reentrant call" ELSE MissingRole
            /\ Unchanged /\ last.events = <<>>
    /\ (frame = <<>> /\ last.op = "batchTransfer")
         => last.result # "ReentrancyGuard: reentrant call"

\* the foreign token, holding tokens of the ledger, was refused a nested
\* batchTransfer that would have succeeded without the guard
C26_Witness ==
    /\ Nested /\ last.op = "batchTransfer"
    /\ batchTransfer(before, token1, last.recipients, last.amounts).err = OK
    /\ last.result = "ReentrancyGuard: reentrant call"

====
